---------------------------- MODULE Spec2Model ----------------------------
(***************************************************************************)
(* rusty_torrent: the download driver (rusty_torrenter/src/main.rs), the   *)
(* peer session (lib_rusty_torrent/src/peer.rs) and the peer wire codec    *)
(* (lib_rusty_torrent/src/peer_wire_protocol.rs) as one state machine.     *)
(*                                                                         *)
(* Byte buffers (Vec<u8>, &[u8], the TCP stream) are kept byte-exact in    *)
(* run-length form: a sequence of <<byte, count>> runs, count > 0, no two   *)
(* neighbouring runs with the same byte.  Equal byte strings have equal    *)
(* representations, so = on buffers is = on the bytes.                     *)
(***************************************************************************)
EXTENDS Integers, Sequences, FiniteSets, TLC

(***************************************************************************)
(* Program constants.                                                      *)
(***************************************************************************)
BlockSize == 16384
ResponseSize == 16397
HandshakeBufSize == 1024
HandshakeSize == 68
RequestOverhead == 13
PieceHeader == 8

(***************************************************************************)
(* Bounds of the model.                                                    *)
(***************************************************************************)
MaxPieceBlocks == 2
MaxTotalBlocks == 2
MaxUnsolicited == 3
MaxPeers == 2

(***************************************************************************)
(* Byte buffers in run-length form.                                        *)
(***************************************************************************)
\* bytes in the first k runs
RECURSIVE RunSum(_, _)
RunSum(b, k) == IF k = 0 THEN 0 ELSE b[k][2] + RunSum(b, k - 1)

BLen(b) == RunSum(b, Len(b))

\* number of leading runs that lie wholly within the first n bytes
RECURSIVE WholeRunsFrom(_, _, _, _)
WholeRunsFrom(b, n, k, acc) ==
    IF k > Len(b) THEN Len(b)
    ELSE IF acc + b[k][2] > n THEN k - 1
    ELSE WholeRunsFrom(b, n, k + 1, acc + b[k][2])

WholeRuns(b, n) == WholeRunsFrom(b, n, 1, 0)

BCons(x, n, b) ==
    IF n <= 0 THEN b
    ELSE IF b # <<>> /\ Head(b)[1] = x
         THEN << <<x, n + Head(b)[2]>> >> \o Tail(b)
         ELSE << <<x, n>> >> \o b

\* x followed by y, both values
Joined(x, y) ==
    IF x = <<>> THEN y
    ELSE IF y = <<>> THEN x
    ELSE IF x[Len(x)][1] = y[1][1]
         THEN SubSeq(x, 1, Len(x) - 1)
                  \o << <<y[1][1], x[Len(x)][2] + y[1][2]>> >> \o Tail(y)
         ELSE x \o y

\* a followed by b; a and b are evaluated once
BCat(a, b) == CHOOSE r \in {Joined(x, y) : x \in {a}, y \in {b}} : TRUE

\* value[..n]
BTake(b, n) ==
    IF n <= 0 THEN <<>>
    ELSE LET w == WholeRuns(b, n)
         IN IF w = Len(b) \/ RunSum(b, w) = n THEN SubSeq(b, 1, w)
            ELSE SubSeq(b, 1, w) \o << <<b[w + 1][1], n - RunSum(b, w)>> >>

\* value[n..]
BDrop(b, n) ==
    IF n <= 0 THEN b
    ELSE LET w == WholeRuns(b, n)
         IN IF w = Len(b) THEN <<>>
            ELSE << <<b[w + 1][1], RunSum(b, w + 1) - n>> >> \o SubSeq(b, w + 2, Len(b))

\* value[i..j]: bytes i .. j-1, zero based
BSlice(b, i, j) == BTake(BDrop(b, i), j - i)

\* value[i], zero based, for i < BLen(b)
BAt(b, i) == b[WholeRuns(b, i) + 1][1]

\* vec![x; n]
Fill(x, n) == BCons(x, n, <<>>)

\* a plain sequence of bytes as a buffer: the buffers of its two halves, joined
RECURSIVE BytesOf(_)
BytesOf(v) ==
    IF v = <<>> THEN <<>>
    ELSE IF Len(v) = 1 THEN << <<v[1], 1>> >>
    ELSE BCat(CHOOSE r \in {BytesOf(x) : x \in {SubSeq(v, 1, Len(v) \div 2)}} : TRUE,
              CHOOSE r \in {BytesOf(x) : x \in {SubSeq(v, Len(v) \div 2 + 1, Len(v))}} : TRUE)

Bytes(s) == CHOOSE r \in {BytesOf(x) : x \in {s}} : TRUE

\* a read of at most n bytes into a zeroed buffer of n bytes
ReadInto(stream, n) == BCat(BTake(stream, n), Fill(0, n - BLen(BTake(stream, n))))

\* u32::to_be_bytes
ToBeBytes(v) ==
    << (v \div 16777216) % 256, (v \div 65536) % 256, (v \div 256) % 256, v % 256 >>

\* u32::from_be_bytes([buf[i], buf[i+1], buf[i+2], buf[i+3]])
FromBeBytes(b, i) ==
    BAt(b, i) * 16777216 + BAt(b, i + 1) * 65536 + BAt(b, i + 2) * 256 + BAt(b, i + 3)

(***************************************************************************)
(* Message codec: peer_wire_protocol.rs.                                   *)
(***************************************************************************)
MessageTypes ==
    << "Choke", "Unchoke", "Interested", "NotInterested", "Have",
       "Bitfield", "Request", "Piece", "Cancel", "Port" >>

NoPayload == [some |-> FALSE, bytes |-> <<>>]
SomePayload(b) == [some |-> TRUE, bytes |-> b]

\* the Err(String) results of the codec, by format string and arguments
BufferNotLongEnough(n) == << "Buffer not long enough to be a message", n >>
InvalidMessageType(x) == << "Invalid Message Type", x >>
InvalidMessageLength(n, e) == << "Invalid message length", n, e >>
PayloadMissing == << "Error you are trying to create a message that needs a payload with no payload" >>

DecodeErr(e) == [ok |-> FALSE, message_length |-> 0, message_type |-> "Err",
                 payload |-> NoPayload, error |-> e]

\* Message::new
Message(l, t, p) == [ok |-> TRUE, message_length |-> l, message_type |-> t,
                     payload |-> p]

\* TypeKnown with the last id left out of the match
TypeKnown_NoPort(byte) == byte \in 0..8

\* impl TryFrom<u8> for MessageType: ids 0..=9, anything else is an error
TypeKnown(byte) == byte \in 0..9
TypeOfByte(byte) == MessageTypes[byte + 1]

\* impl TryFrom<MessageType> for u8: the ten typed messages, KeepAlive is an error
TypeHasByte(t) == \E i \in 0..9 : MessageTypes[i + 1] = t
ByteOfType(t) == CHOOSE i \in 0..9 : MessageTypes[i + 1] = t

\* impl TryFrom<&[u8]> for Message
TryFromBytes(value) ==
    IF BLen(value) < 5 THEN DecodeErr(BufferNotLongEnough(BLen(value)))
    ELSE LET message_length == FromBeBytes(value, 0)
             end_of_message == 4 + message_length
         IN IF message_length = 0
            THEN Message(0, "KeepAlive", NoPayload)
            ELSE IF ~TypeKnown(BAt(value, 4))
            THEN DecodeErr(InvalidMessageType(BAt(value, 4)))
            ELSE IF message_length = 5
            THEN Message(5, TypeOfByte(BAt(value, 4)), NoPayload)
            ELSE IF end_of_message > BLen(value)
            THEN DecodeErr(InvalidMessageLength(BLen(value), end_of_message))
            ELSE Message(message_length, TypeOfByte(BAt(value, 4)),
                         SomePayload(BSlice(value, 5, end_of_message)))

\* impl TryFrom<Message> for Vec<u8>
ToBytes(m) ==
    LET prefix == Bytes(ToBeBytes(m.message_length))
    IN IF m.message_type = "KeepAlive" THEN [ok |-> TRUE, bytes |-> prefix]
       ELSE IF m.message_type \in {"Choke", "Unchoke", "Interested", "NotInterested"}
       THEN [ok |-> TRUE,
             bytes |-> BCat(prefix, Bytes(<<ByteOfType(m.message_type)>>))]
       ELSE IF ~m.payload.some
       THEN [ok |-> FALSE, bytes |-> <<>>, error |-> PayloadMissing]
       ELSE [ok |-> TRUE,
             bytes |-> BCat(prefix, BCat(Bytes(<<ByteOfType(m.message_type)>>),
                                         m.payload.bytes))]

\* create_piece_request with the offset pushed before the index
CreatePieceRequest_OffsetFirst(piece_index, offset, length) ==
    Message(13, "Request",
            SomePayload(BCat(Bytes(ToBeBytes(offset)),
                        BCat(Bytes(ToBeBytes(piece_index)), Bytes(ToBeBytes(length))))))

\* Message::create_piece_request
CreatePieceRequest(piece_index, offset, length) ==
    Message(13, "Request",
            SomePayload(BCat(Bytes(ToBeBytes(piece_index)),
                        BCat(Bytes(ToBeBytes(offset)), Bytes(ToBeBytes(length))))))

\* Message::number_of_messages: the loop from front pointer i; an index past the
\* end of buf panics.  The result is the list of message buffers, or a panic.
RECURSIVE NumberOfMessagesFrom(_, _, _)
NumberOfMessagesFrom(buf, i, messages) ==
    IF i + 3 >= BLen(buf) THEN [panic |-> TRUE, messages |-> messages]
    ELSE LET j == FromBeBytes(buf, i) + 4
         IN IF i + j > BLen(buf) THEN [panic |-> TRUE, messages |-> messages]
            ELSE IF i + j + 3 >= BLen(buf)
            THEN [panic |-> TRUE, messages |-> Append(messages, BSlice(buf, i, i + j))]
            ELSE IF FromBeBytes(buf, i + j) = 0
            THEN [panic |-> FALSE, messages |-> Append(messages, BSlice(buf, i, i + j))]
            ELSE NumberOfMessagesFrom(buf, i + j, Append(messages, BSlice(buf, i, i + j)))

NumberOfMessages(buf) == NumberOfMessagesFrom(buf, 0, <<>>)


(***************************************************************************)
(* Handshake: peer_wire_protocol.rs.                                       *)
(***************************************************************************)
\* "BitTorrent protocol"
ProtocolString ==
    << 66, 105, 116, 84, 111, 114, 114, 101, 110, 116, 32,
       112, 114, 111, 116, 111, 99, 111, 108 >>

\* "-MY0001-123456654321", the literal Handshake::new stores as peer_id
ClientPeerId ==
    << 45, 77, 89, 48, 48, 48, 49, 45, 49, 50, 51, 52, 53, 54, 54, 53, 52, 51, 50, 49 >>

\* Handshake::new(info_hash, peer_id): the caller's peer_id is only length-checked
HandshakeNew(info_hash, peer_id) ==
    IF BLen(info_hash) # 20 \/ BLen(peer_id) # 20
    THEN [ok |-> FALSE, p_str_len |-> 0, p_str |-> <<>>, info_hash |-> <<>>,
          peer_id |-> <<>>]
    ELSE [ok |-> TRUE, p_str_len |-> 19, p_str |-> Bytes(ProtocolString),
          info_hash |-> info_hash, peer_id |-> Bytes(ClientPeerId)]

\* Handshake::to_buffer with the two identifiers in the other order
HandshakeToBuffer_PeerIdFirst(h) ==
    BCat(Bytes(<<h.p_str_len>>),
    BCat(BTake(h.p_str, 19),
    BCat(Fill(0, 8),
    BCat(BTake(h.peer_id, 20), BTake(h.info_hash, 20)))))

\* Handshake::to_buffer: a String field contributes its UTF-8 bytes
HandshakeToBuffer(h) ==
    BCat(Bytes(<<h.p_str_len>>),
    BCat(BTake(h.p_str, 19),
    BCat(Fill(0, 8),
    BCat(BTake(h.info_hash, 20), BTake(h.peer_id, 20)))))

\* String::push(byte as char) n times: the char is U+0000..U+00FF, which the
\* String holds as one byte below 128 and as two bytes from 128 on
RECURSIVE PushChars(_, _)
PushChars(byte, n) ==
    IF n = 0 THEN <<>>
    ELSE IF byte < 128 THEN Fill(byte, n)
    ELSE IF n = 1 THEN << <<192 + (byte \div 64), 1>>, <<128 + (byte % 64), 1>> >>
    ELSE BCat(PushChars(byte, n \div 2), PushChars(byte, n - n \div 2))

\* the String built by pushing every byte of b as a char
RECURSIVE StringFromBytes(_)
StringFromBytes(b) ==
    IF b = <<>> THEN <<>>
    ELSE BCat(PushChars(Head(b)[1], Head(b)[2]), StringFromBytes(Tail(b)))

\* Handshake::from_buffer: only the length is checked
HandshakeFromBuffer(b) ==
    IF BLen(b) < HandshakeSize
    THEN [ok |-> FALSE, p_str_len |-> 0, p_str |-> <<>>, info_hash |-> <<>>,
          peer_id |-> <<>>]
    ELSE [ok |-> TRUE, p_str_len |-> BAt(b, 0),
          p_str |-> StringFromBytes(BSlice(b, 1, 20)),
          info_hash |-> BSlice(b, 28, 48),
          peer_id |-> StringFromBytes(BSlice(b, 48, 68))]

(***************************************************************************)
(* Torrent: torrent.rs.  The content of the torrent is all zero bytes (the *)
(* seed scenario S1); a block of any other byte is corrupt.                *)
(***************************************************************************)
Min(a, b) == IF a < b THEN a ELSE b

\* Option<T>
None == [some |-> FALSE]
Some(v) == [some |-> TRUE, value |-> v]

\* the external SHA-1, as a deterministic 20-byte digest of the bytes: their
\* number, their sum, and twelve zero bytes
RECURSIVE ByteSum(_)
ByteSum(b) == IF b = <<>> THEN 0 ELSE Head(b)[1] * Head(b)[2] + ByteSum(Tail(b))

Sha1(b) == BCat(Bytes(ToBeBytes(BLen(b)) \o ToBeBytes(ByteSum(b))), Fill(0, 12))

\* number of pieces of a torrent of total bytes cut into pieces of piece_length
PieceCount(piece_length, total) == (total + piece_length - 1) \div piece_length

\* the bytes of piece i of the content
TruePiece(piece_length, total, i) ==
    Fill(0, Min(piece_length, total - i * piece_length))

\* info.pieces: the 20-byte digests of the pieces, one after the other
RECURSIVE PiecesUpTo(_, _, _)
PiecesUpTo(piece_length, total, n) ==
    IF n = 0 THEN <<>>
    ELSE BCat(PiecesUpTo(piece_length, total, n - 1),
              Sha1(TruePiece(piece_length, total, n - 1)))

PiecesOf(piece_length, total) ==
    PiecesUpTo(piece_length, total, PieceCount(piece_length, total))

PieceLengths ==
    {k * BlockSize : k \in 1..MaxPieceBlocks}
        \cup {BlockSize \div 2, BlockSize + BlockSize \div 2}

TotalLengths ==
    {k * BlockSize + d : k \in 0..MaxTotalBlocks, d \in {0, 1}} \ {0}

\* struct Info, with the fields the program reads; name is "t"
Info(piece_length, pieces, length, files) ==
    [name |-> Bytes(<<116>>), piece_length |-> piece_length, pieces |-> pieces,
     length |-> length, files |-> files]

\* the single-file metafiles the driver is run on
Torrents ==
    { [info |-> Info(p, PiecesOf(p, t), Some(t), None),
       announce |-> None, announce_list |-> None] :
        p \in PieceLengths, t \in TotalLengths }

\* the decimal digits of n, in ASCII
RECURSIVE Digits(_)
Digits(n) == IF n < 10 THEN <<48 + n>> ELSE Digits(n \div 10) \o <<48 + (n % 10)>>

\* bencode of an integer: i<digits>e
BencodeInt(n) == Bytes(<<105>> \o Digits(n) \o <<101>>)

\* bencode of a byte string: <length>:<bytes>
BencodeBytes(b) == BCat(Bytes(Digits(BLen(b)) \o <<58>>), b)

\* the dictionary keys "files", "length", "name", "piece length", "pieces"
KeyFiles == BencodeBytes(Bytes(<<102, 105, 108, 101, 115>>))
KeyLength == BencodeBytes(Bytes(<<108, 101, 110, 103, 116, 104>>))
KeyName == BencodeBytes(Bytes(<<110, 97, 109, 101>>))
KeyPieceLength ==
    BencodeBytes(Bytes(<<112, 105, 101, 99, 101, 32, 108, 101, 110, 103, 116, 104>>))
KeyPieces == BencodeBytes(Bytes(<<112, 105, 101, 99, 101, 115>>))

\* bencode of a Vec<File>, without the closing e; a File is its length
RECURSIVE BencodeFiles(_)
BencodeFiles(files) ==
    IF files = <<>> THEN Bytes(<<108>>)
    ELSE BCat(BencodeFiles(SubSeq(files, 1, Len(files) - 1)),
         BCat(Bytes(<<100>>),
         BCat(KeyLength,
         BCat(BencodeInt(files[Len(files)].length), Bytes(<<101>>)))))

\* serde_bencode::to_bytes(&self.info): the fields of the struct, a None left out
BencodeInfo(info) ==
    BCat(Bytes(<<100>>),
    BCat(IF info.files.some
         THEN BCat(KeyFiles, BCat(BencodeFiles(info.files.value), Bytes(<<101>>)))
         ELSE <<>>,
    BCat(IF info.length.some THEN BCat(KeyLength, BencodeInt(info.length.value))
         ELSE <<>>,
    BCat(KeyName,
    BCat(BencodeBytes(info.name),
    BCat(KeyPieceLength,
    BCat(BencodeInt(info.piece_length),
    BCat(KeyPieces,
    BCat(BencodeBytes(info.pieces), Bytes(<<101>>))))))))))

\* the sum of the lengths of a Vec<File>
RECURSIVE SumLengths(_)
SumLengths(files) ==
    IF files = <<>> THEN 0 ELSE Head(files).length + SumLengths(Tail(files))

\* Torrent::get_total_length
GetTotalLength(t) ==
    IF t.info.length.some THEN t.info.length.value
    ELSE IF t.info.files.some THEN SumLengths(t.info.files.value)
    ELSE 0

\* Torrent::get_info_hash
GetInfoHash(t) == Sha1(BencodeInfo(t.info))

\* Torrent::from_torrent_file on a metafile that parses: serde fills the fields
\* of the structs and skips every key they do not declare.  A metafile is the
\* dictionary of its known keys plus the sets of its other keys, in info and
\* at the top level
FromTorrentFile(file) ==
    [info |-> Info(file.info.piece_length, file.info.pieces, file.info.length,
                   file.info.files),
     announce |-> file.announce, announce_list |-> file.announce_list]

\* Torrent::check_piece on the digest at another place of info.pieces
CheckPiece_FirstDigest(t, piece, i) ==
    Sha1(piece) = BSlice(t.info.pieces, 0, 20)

\* Torrent::check_piece
CheckPiece(t, piece, i) ==
    Sha1(piece) = BSlice(t.info.pieces, i * 20, i * 20 + 20)

(***************************************************************************)
(* State.                                                                  *)
(***************************************************************************)
VARIABLES
    torrent,      \* the Torrent read from the metafile
    pc,           \* where main is
    choking,      \* Peer.choking
    peer_id,      \* Peer.peer_id
    stream,       \* bytes the peer has sent and the client has not read
    sent,         \* the buffers the client wrote to the connection, in order
    index,        \* main: the piece loop's index
    offset,       \* request_piece: the block loop's offset
    len,          \* main: the running byte counter handed to request_piece
    buf,          \* request_piece: the piece buffer
    read_size,    \* request_piece: size of the read_exact awaited
    written,      \* the calls of Files::write_piece, in order
    checked,      \* the calls of Torrent::check_piece with their results
    request_log,  \* every Request written, with the last Choke/Unchoke decoded before
    lastCU,       \* the last Choke/Unchoke message the client decoded: its type, or "none"
    tried,        \* indices of the tracker's peers the driver connected to
    response_log, \* what request_piece read after each Request, in order
    call,         \* the last call of a codec function alone, with arguments and results
    peer_hs,      \* the peer has sent its handshake
    unsolicited,  \* number of unsolicited messages the peer has sent
    pending,      \* Requests the peer has not answered
    noise,        \* the peer sent Have/Bitfield/KeepAlive while pieces were requested
    rogue,        \* the peer sent Choke/Unchoke while pieces were requested
    served,       \* block bytes the peer sent in Piece replies for the current piece
    tail,         \* types of the messages the peer sent before the handshake read
    tracker,      \* the tracker exchange: where it is, the socket, what it obtained
    worker        \* Peer::test: the spawned task, the caller and the broadcast channel

vars ==
    << torrent, pc, choking, peer_id, stream, sent, index, offset, len, buf,
       read_size, written, checked, request_log, lastCU, tried, response_log,
       call, peer_hs, unsolicited, pending, noise, rogue, served, tail,
       tracker, worker >>

driverVars == << pc, choking, peer_id, sent, index, offset, len, buf, read_size,
                 written, checked, request_log, lastCU, tried, response_log >>

\* "-RT0001-123456012345", the peer_id Peer::handshake asks for
RequestedPeerId ==
    << 45, 82, 84, 48, 48, 48, 49, 45, 49, 50, 51, 52, 53, 54, 48, 49, 50, 51, 52, 53 >>

DataBytes == {0, 1}
UnsolicitedTypes == {"KeepAlive", "Choke", "Unchoke", "Have", "Bitfield"}
Terminal == {"done", "panicked", "returned"}
RequestPhase == pc \in {"piece_loop", "rp_loop", "rp_read", "check"}

NumPieces == BLen(torrent.info.pieces) \div 20

Init ==
    /\ torrent \in Torrents
    /\ pc = "create_connection"
    /\ choking = TRUE
    /\ peer_id = <<>>
    /\ stream = <<>>
    /\ sent = <<>>
    /\ index = 0
    /\ offset = 0
    /\ len = 0
    /\ buf = <<>>
    /\ read_size = 0
    /\ written = <<>>
    /\ checked = {}
    /\ request_log = <<>>
    /\ lastCU = "none"
    /\ tried = {}
    /\ response_log = <<>>
    /\ call = [op |-> "none"]
    /\ peer_hs = FALSE
    /\ unsolicited = 0
    /\ pending = <<>>
    /\ noise = FALSE
    /\ rogue = FALSE
    /\ served = <<>>
    /\ tail = <<>>
    /\ tracker = [pc |-> "init", sent |-> <<>>, inbox |-> <<>>, responses |-> <<>>,
                  id |-> None, peers |-> <<>>, datagrams |-> 0]
    /\ worker = [pc |-> "idle", runtime |-> "none", running |-> "caller",
                 receiver |-> <<>>, rx1 |-> <<>>, commands |-> 0, answers |-> 0,
                 got |-> 0, spun |-> FALSE]

(***************************************************************************)
(* The peer session and the driver.  Every length of the model is below    *)
(* 2^31, so the u32 arithmetic of request_piece is plain arithmetic here.  *)
(***************************************************************************)
\* main: Peer::create_connection to the first peer of the announce response
CreateConnection ==
    /\ pc = "create_connection"
    /\ \E connected \in BOOLEAN :
          /\ pc' = IF connected THEN "handshake_write" ELSE "returned"
          /\ tried' = IF connected THEN {0} ELSE tried
    /\ choking' = TRUE
    /\ peer_id' = <<>>
    /\ UNCHANGED << call, tracker, worker, response_log, torrent, stream, sent, index, offset, len, buf, read_size,
                    written, checked, request_log, lastCU, peer_hs, unsolicited,
                    pending, noise, rogue, served, tail >>

\* Peer::handshake, up to the write of the client's handshake
HandshakeWrite ==
    /\ pc = "handshake_write"
    /\ sent' = Append(sent, HandshakeToBuffer(
                   HandshakeNew(GetInfoHash(torrent), Bytes(RequestedPeerId))))
    /\ pc' = "handshake_read"
    /\ UNCHANGED << call, tracker, worker, response_log, torrent, choking, peer_id, stream, index, offset, len, buf,
                    read_size, written, checked, request_log, lastCU, tried,
                    peer_hs, unsolicited, pending, noise, rogue, served, tail >>

\* the messages of a list of message buffers decoded in order, up to the first error
RECURSIVE DecodeAll(_, _)
DecodeAll(messages, done) ==
    IF messages = <<>> THEN [err |-> FALSE, messages |-> done]
    ELSE IF ~TryFromBytes(Head(messages)).ok THEN [err |-> TRUE, messages |-> done]
    ELSE DecodeAll(Tail(messages), Append(done, TryFromBytes(Head(messages))))

\* the last Choke/Unchoke among decoded messages, or the one before them
RECURSIVE LastChokeUnchoke(_, _)
LastChokeUnchoke(messages, before) ==
    IF messages = <<>> THEN before
    ELSE LastChokeUnchoke(Tail(messages),
            IF Head(messages).message_type \in {"Choke", "Unchoke"}
            THEN Head(messages).message_type ELSE before)

\* Peer::handshake, from the read of the peer's reply; main unwraps the result
HandshakeRead ==
    /\ pc = "handshake_read"
    /\ stream # <<>>
    /\ \E rbuf \in {ReadInto(stream, HandshakeBufSize)} :
       \E rest \in {BDrop(rbuf, HandshakeSize)} :
       \E found \in {NumberOfMessages(rest)} :
       LET handshake == HandshakeFromBuffer(BTake(rbuf, HandshakeSize))
           decoded == DecodeAll(found.messages, <<>>)
       IN IF found.panic
          THEN /\ pc' = "panicked"
               /\ UNCHANGED << choking, peer_id, lastCU >>
          ELSE /\ choking' = IF \E k \in 1..Len(decoded.messages) :
                                    decoded.messages[k].message_type = "Unchoke"
                             THEN FALSE ELSE choking
               /\ lastCU' = LastChokeUnchoke(decoded.messages, lastCU)
               /\ peer_id' = IF decoded.err THEN peer_id ELSE handshake.peer_id
               /\ pc' = IF decoded.err THEN "panicked" ELSE "unchoke_wait"
    /\ stream' = BDrop(stream, HandshakeBufSize)
    /\ UNCHANGED << call, tracker, worker, response_log, torrent, sent, index, offset, len, buf, read_size, written,
                    checked, request_log, tried, peer_hs, unsolicited, pending,
                    noise, rogue, served, tail >>

\* Peer::keep_alive_until_unchoke: one turn of the loop (read_message, then the match)
KeepAliveUntilUnchoke ==
    /\ pc = "unchoke_wait"
    /\ stream # <<>>
    /\ \E message \in {TryFromBytes(ReadInto(stream, ResponseSize))} :
          /\ pc' = IF ~message.ok THEN "panicked"
                   ELSE IF message.message_type = "Unchoke" THEN "piece_loop"
                   ELSE "unchoke_wait"
          /\ choking' = IF message.message_type = "Unchoke" THEN FALSE
                        ELSE IF message.message_type = "Choke" THEN TRUE
                        ELSE choking
          /\ lastCU' = IF message.message_type \in {"Choke", "Unchoke"}
                       THEN message.message_type ELSE lastCU
          /\ sent' = IF message.message_type = "KeepAlive"
                     THEN sent \o << ToBytes(Message(0, "KeepAlive", NoPayload)).bytes,
                                     ToBytes(Message(1, "Interested", NoPayload)).bytes >>
                     ELSE sent
    /\ stream' = BDrop(stream, ResponseSize)
    /\ UNCHANGED << call, tracker, worker, response_log, torrent, peer_id, index, offset, len, buf, read_size, written,
                    checked, request_log, tried, peer_hs, unsolicited, pending,
                    noise, rogue, served, tail >>


\* main: the head of the piece loop, for index in 0..num_pieces
NextPiece ==
    /\ pc = "piece_loop"
    /\ IF index < NumPieces
       THEN /\ pc' = "rp_loop"
            /\ buf' = <<>>
            /\ offset' = 0
            /\ served' = <<>>
       ELSE /\ pc' = "disconnect"
            /\ UNCHANGED << buf, offset, served >>
    /\ UNCHANGED << call, tracker, worker, response_log, torrent, choking, peer_id, stream, sent, index, len, read_size,
                    written, checked, request_log, lastCU, tried, peer_hs,
                    unsolicited, pending, noise, rogue, tail >>

\* request_piece: the final-block test, *len + 16_384 >= total_len
FinalBlock(l, total_len) == l + BlockSize >= total_len

\* request_piece: the length asked for
RequestLength(l, total_len) ==
    IF FinalBlock(l, total_len) THEN total_len - l ELSE BlockSize

\* request_piece: the early return, *len >= total_len - 1
TotalReached(l, total_len) == l >= total_len - 1

\* request_piece: the head of the block loop and the write of the Request
RequestPieceSend ==
    /\ pc = "rp_loop"
    /\ IF offset >= torrent.info.piece_length
       THEN /\ pc' = "check"
            /\ UNCHANGED << sent, read_size, request_log, pending >>
       ELSE LET total_len == GetTotalLength(torrent)
                length == RequestLength(len, total_len)
            IN /\ sent' = Append(sent, ToBytes(CreatePieceRequest(index, offset, length)).bytes)
               /\ read_size' = IF FinalBlock(len, total_len)
                               THEN length + RequestOverhead ELSE ResponseSize
               /\ request_log' = Append(request_log,
                      [index |-> index, offset |-> offset, length |-> length,
                       lastCU |-> lastCU])
               /\ pending' = Append(pending,
                      [index |-> index, offset |-> offset, length |-> length])
               /\ pc' = "rp_read"
    /\ UNCHANGED << call, tracker, worker, response_log, torrent, choking, peer_id, stream, index, offset, len, buf,
                    written, checked, lastCU, tried, peer_hs, unsolicited, noise,
                    rogue, served, tail >>

\* request_piece: the read_exact of the response, the match on its type and the
\* early return; main unwraps the result
RequestPieceRead ==
    /\ pc = "rp_read"
    /\ BLen(stream) >= read_size
    /\ \E response \in {TryFromBytes(BTake(stream, read_size))} :
       LET total_len == GetTotalLength(torrent)
           isPiece == response.ok /\ response.message_type = "Piece"
           data == response.payload.bytes
           len1 == IF isPiece THEN len + BLen(data) - PieceHeader ELSE len
       IN IF ~response.ok \/ (isPiece /\ ~response.payload.some)
          THEN /\ pc' = "panicked"
               /\ UNCHANGED << len, buf, offset, lastCU, response_log >>
          ELSE /\ len' = len1
               /\ response_log' = Append(response_log,
                      IF isPiece
                      THEN [message_type |-> "Piece", index |-> FromBeBytes(data, 0),
                            offset |-> FromBeBytes(data, 4)]
                      ELSE [message_type |-> response.message_type])
               /\ buf' = IF isPiece THEN BCat(buf, BDrop(data, PieceHeader)) ELSE buf
               /\ lastCU' = IF response.message_type \in {"Choke", "Unchoke"}
                            THEN response.message_type ELSE lastCU
               /\ IF TotalReached(len1, total_len)
                  THEN pc' = "check" /\ offset' = offset
                  ELSE pc' = "rp_loop" /\ offset' = offset + BlockSize
    /\ stream' = BDrop(stream, read_size)
    /\ UNCHANGED << call, tracker, worker, torrent, choking, peer_id, sent, index, read_size, written,
                    checked, request_log, tried, peer_hs, unsolicited, pending,
                    noise, rogue, served, tail >>

\* CheckAndWrite with the result of check_piece ignored: every piece is written
CheckAndWrite_Unchecked ==
    /\ pc = "check"
    /\ checked' = checked \cup
           {[piece |-> buf, index |-> index, ok |-> CheckPiece(torrent, buf, index)]}
    /\ written' = Append(written, [piece |-> buf, index |-> index])
    /\ index' = index + 1
    /\ pc' = "piece_loop"
    /\ UNCHANGED << call, tracker, worker, response_log, torrent, choking, peer_id, stream, sent, offset, len, buf,
                    read_size, request_log, lastCU, tried, peer_hs, unsolicited,
                    pending, noise, rogue, served, tail >>

\* CheckAndWrite with `continue` for `break`: a failed piece is skipped
CheckAndWrite_Continue ==
    /\ pc = "check"
    /\ checked' = checked \cup
           {[piece |-> buf, index |-> index, ok |-> CheckPiece(torrent, buf, index)]}
    /\ written' = IF CheckPiece(torrent, buf, index)
                  THEN Append(written, [piece |-> buf, index |-> index])
                  ELSE written
    /\ index' = index + 1
    /\ pc' = "piece_loop"
    /\ UNCHANGED << call, tracker, worker, response_log, torrent, choking, peer_id, stream, sent, offset, len, buf,
                    read_size, request_log, lastCU, tried, peer_hs, unsolicited,
                    pending, noise, rogue, served, tail >>

\* main: check_piece, then write_piece or break
CheckAndWrite ==
    /\ pc = "check"
    /\ checked' = checked \cup
           {[piece |-> buf, index |-> index, ok |-> CheckPiece(torrent, buf, index)]}
    /\ IF CheckPiece(torrent, buf, index)
       THEN /\ written' = Append(written, [piece |-> buf, index |-> index])
            /\ index' = index + 1
            /\ pc' = "piece_loop"
       ELSE /\ pc' = "disconnect"
            /\ UNCHANGED << written, index >>
    /\ UNCHANGED << call, tracker, worker, response_log, torrent, choking, peer_id, stream, sent, offset, len, buf,
                    read_size, request_log, lastCU, tried, peer_hs, unsolicited,
                    pending, noise, rogue, served, tail >>

\* main: peer.disconnect().await.unwrap(), then the report
\* "Successfully completed download" and the return from main
Disconnect ==
    /\ pc = "disconnect"
    /\ \E shutdown_ok \in BOOLEAN : pc' = IF shutdown_ok THEN "done" ELSE "panicked"
    /\ UNCHANGED << call, tracker, worker, response_log, torrent, choking, peer_id, stream, sent, index, offset, len,
                    buf, read_size, written, checked, request_log, lastCU, tried,
                    peer_hs, unsolicited, pending, noise, rogue, served, tail >>

(***************************************************************************)
(* The remote peer: the environment of the session.                        *)
(***************************************************************************)
\* the bitfield of a peer that has every piece (at most 8 pieces)
FullBitfield(n) ==
    IF n >= 8 THEN 255
    ELSE 256 - (CASE n = 0 -> 256 [] n = 1 -> 128 [] n = 2 -> 64 [] n = 3 -> 32
                  [] n = 4 -> 16 [] n = 5 -> 8 [] n = 6 -> 4 [] OTHER -> 2)

\* the wire bytes of an unsolicited message of type t
UnsolicitedBytes(t) ==
    CASE t = "KeepAlive" -> ToBytes(Message(0, "KeepAlive", NoPayload)).bytes
      [] t = "Choke"     -> ToBytes(Message(1, "Choke", NoPayload)).bytes
      [] t = "Unchoke"   -> ToBytes(Message(1, "Unchoke", NoPayload)).bytes
      [] t = "Have"      -> ToBytes(Message(5, "Have",
                                SomePayload(Bytes(ToBeBytes(0))))).bytes
      [] OTHER           -> ToBytes(Message(2, "Bitfield",
                                SomePayload(Bytes(<<FullBitfield(NumPieces)>>)))).bytes

\* the wire bytes of the Piece message answering Request r with blocks of byte d
PieceReplyBytes(r, d) ==
    ToBytes(Message(9 + r.length, "Piece",
        SomePayload(BCat(Bytes(ToBeBytes(r.index)),
                    BCat(Bytes(ToBeBytes(r.offset)), Fill(d, r.length)))))).bytes

\* the peer_id of the remote peer's handshake
RemotePeerId == Fill(80, 20)

\* the peer answers the client's handshake with its own
PeerHandshake ==
    /\ pc = "handshake_read"
    /\ ~peer_hs
    /\ peer_hs' = TRUE
    /\ stream' = BCat(stream,
           HandshakeToBuffer([p_str_len |-> 19, p_str |-> Bytes(ProtocolString),
                              info_hash |-> GetInfoHash(torrent),
                              peer_id |-> RemotePeerId]))
    /\ UNCHANGED << call, tracker, worker, torrent, unsolicited, pending, noise, rogue, served, tail >>
    /\ UNCHANGED driverVars

\* the peer sends a message nobody asked for
PeerSend(t) ==
    /\ peer_hs
    /\ pc \notin Terminal
    /\ unsolicited < MaxUnsolicited
    /\ unsolicited' = unsolicited + 1
    /\ stream' = BCat(stream, UnsolicitedBytes(t))
    /\ tail' = IF pc = "handshake_read" THEN Append(tail, t) ELSE tail
    /\ noise' = (noise \/ (RequestPhase /\ t \in {"KeepAlive", "Have", "Bitfield"}))
    /\ rogue' = (rogue \/ (RequestPhase /\ t \in {"Choke", "Unchoke"}))
    /\ UNCHANGED << call, tracker, worker, torrent, peer_hs, pending, served >>
    /\ UNCHANGED driverVars

\* the offsets a peer may put in the Piece that answers Request r: the one asked
\* for, or that of the block after it
ReplyOffsets(r) == {r.offset, r.offset + BlockSize}

\* the peer answers its oldest unanswered Request with a Piece message of the
\* requested index and length
PeerReply ==
    /\ pending # <<>>
    /\ pc \notin Terminal
    /\ \E d \in DataBytes, o \in ReplyOffsets(Head(pending)) :
          /\ stream' = BCat(stream,
                 PieceReplyBytes([Head(pending) EXCEPT !.offset = o], d))
          /\ served' = BCat(served, Fill(d, Head(pending).length))
    /\ pending' = Tail(pending)
    /\ UNCHANGED << call, tracker, worker, torrent, peer_hs, unsolicited, noise, rogue, tail >>
    /\ UNCHANGED driverVars

Next ==
    \/ CreateConnection
    \/ HandshakeWrite
    \/ HandshakeRead
    \/ KeepAliveUntilUnchoke
    \/ NextPiece
    \/ RequestPieceSend
    \/ RequestPieceRead
    \/ CheckAndWrite
    \/ Disconnect
    \/ PeerHandshake
    \/ \E t \in UnsolicitedTypes : PeerSend(t)
    \/ PeerReply

Spec == Init /\ [][Next]_vars


(***************************************************************************)
(* Torrent::get_trackers.  A URL is the sequence of its characters.        *)
(***************************************************************************)
UdpScheme == << "u", "d", "p", ":", "/", "/" >>
HttpScheme == << "h", "t", "t", "p", ":", "/", "/" >>
AnnouncePath == << "/", "a", "n", "n", "o", "u", "n", "c", "e" >>
DigitChars == << "0", "1", "2", "3", "4", "5", "6", "7", "8", "9" >>
U16Max == 65535

\* the number of characters from position i on that match the class [^:/]
RECURSIVE HostLen(_, _)
HostLen(url, i) ==
    IF i > Len(url) \/ url[i] \in {":", "/"} THEN 0 ELSE 1 + HostLen(url, i + 1)

IsDigit(c) == \E k \in 1..10 : DigitChars[k] = c

\* the number of characters from position i on that match \d
RECURSIVE DigitsLen(_, _)
DigitsLen(url, i) ==
    IF i > Len(url) \/ ~IsDigit(url[i]) THEN 0 ELSE 1 + DigitsLen(url, i + 1)

\* re.captures(url) for ^udp://([^:/]+):(\d+)/announce$
Captures(url) ==
    LET h == HostLen(url, Len(UdpScheme) + 1)
        colon == Len(UdpScheme) + h + 1
        d == DigitsLen(url, colon + 1)
    IN IF /\ Len(url) >= Len(UdpScheme)
          /\ SubSeq(url, 1, Len(UdpScheme)) = UdpScheme
          /\ h > 0
          /\ colon <= Len(url)
          /\ url[colon] = ":"
          /\ d > 0
          /\ SubSeq(url, colon + d + 1, Len(url)) = AnnouncePath
       THEN [some |-> TRUE, hostname |-> SubSeq(url, Len(UdpScheme) + 1, colon - 1),
             port |-> SubSeq(url, colon + 1, colon + d)]
       ELSE [some |-> FALSE]

\* the number a string of digits stands for
RECURSIVE DecimalValue(_)
DecimalValue(digits) ==
    IF digits = <<>> THEN 0
    ELSE 10 * DecimalValue(SubSeq(digits, 1, Len(digits) - 1))
         + (CHOOSE k \in 0..9 : DigitChars[k + 1] = digits[Len(digits)])

\* port.parse() to the u16 that SocketAddrV4::new takes
ParsePort(digits) ==
    IF DecimalValue(digits) <= U16Max THEN [ok |-> TRUE, value |-> DecimalValue(digits)]
    ELSE [ok |-> FALSE]

\* dns_lookup::lookup_host: host "a" has one IPv4 address, host "b" an IPv6
\* and an IPv4 address, host "c" an IPv6 address only, any other host none
LookupHost(hostname) ==
    IF hostname = << "a" >> THEN [ok |-> TRUE, ips |-> << [v4 |-> TRUE, addr |-> 1] >>]
    ELSE IF hostname = << "b" >>
    THEN [ok |-> TRUE, ips |-> << [v4 |-> FALSE, addr |-> 2], [v4 |-> TRUE, addr |-> 2] >>]
    ELSE IF hostname = << "c" >>
    THEN [ok |-> TRUE, ips |-> << [v4 |-> FALSE, addr |-> 3] >>]
    ELSE [ok |-> FALSE, ips |-> <<>>]

\* for i in ip { if let IpAddr::V4(j) = i { addresses.push(SocketAddrV4::new(j,
\* port.parse().unwrap())) } }: the addresses after the loop, or the panic of unwrap
RECURSIVE PushAddresses(_, _, _)
PushAddresses(ips, port, addresses) ==
    IF ips = <<>> THEN [panic |-> FALSE, addresses |-> addresses]
    ELSE IF ~Head(ips).v4 THEN PushAddresses(Tail(ips), port, addresses)
    ELSE IF ~ParsePort(port).ok THEN [panic |-> TRUE, addresses |-> addresses]
    ELSE PushAddresses(Tail(ips), port,
             Append(addresses, [ip |-> Head(ips).addr, port |-> ParsePort(port).value]))

\* the body run for one URL: captures, lookup, push
ScanUrl(url, addresses) ==
    LET captures == Captures(url)
    IN IF ~captures.some THEN [panic |-> FALSE, addresses |-> addresses]
       ELSE IF ~LookupHost(captures.hostname).ok
       THEN [panic |-> FALSE, addresses |-> addresses]
       ELSE PushAddresses(LookupHost(captures.hostname).ips, captures.port, addresses)

\* for url in urls.iter(), on &url[0]
RECURSIVE ScanGroups(_, _)
ScanGroups(urls, addresses) ==
    IF urls = <<>> THEN [panic |-> FALSE, addresses |-> addresses]
    ELSE IF Head(urls) = <<>> THEN [panic |-> TRUE, addresses |-> addresses]
    ELSE LET scanned == ScanUrl(Head(urls)[1], addresses)
         IN IF scanned.panic THEN scanned
            ELSE ScanGroups(Tail(urls), scanned.addresses)

\* Torrent::get_trackers
GetTrackers(t) ==
    LET first == IF t.announce.some THEN ScanUrl(t.announce.value, <<>>)
                 ELSE [panic |-> FALSE, addresses |-> <<>>]
        all == IF first.panic \/ ~t.announce_list.some THEN first
               ELSE ScanGroups(t.announce_list.value, first.addresses)
    IN [panic |-> all.panic,
        ok |-> ~all.panic /\ all.addresses # <<>>,
        addresses |-> IF all.panic THEN <<>> ELSE all.addresses]

(***************************************************************************)
(* The tracker messages: tracker.rs.  An i64 is the pair << hi, lo >> of   *)
(* its upper and lower 32 bits, each read as an i32.                       *)
(***************************************************************************)
\* `as i64` on an integer of the i32 range: the sign fills the upper half
I64(v) == << IF v < 0 THEN -1 ELSE 0, v >>

\* i64::to_be_bytes
I64ToBeBytes(v) == ToBeBytes(v[1]) \o ToBeBytes(v[2])

\* u16::to_be_bytes
U16ToBeBytes(v) == << (v \div 256) % 256, v % 256 >>

\* i32::from_be_bytes on buf[i..i+4]
I32FromBeBytes(b, i) ==
    (IF BAt(b, i) >= 128 THEN BAt(b, i) - 256 ELSE BAt(b, i)) * 16777216
        + BAt(b, i + 1) * 65536 + BAt(b, i + 2) * 256 + BAt(b, i + 3)

\* AnnounceMessage::new; peerid is ASCII, one byte per char.  infohash[..20]
\* panics on a shorter slice, peer_id[i] on a 21st char
AnnounceMessageNew(connection_id, infohash, peerid, total_length) ==
    IF BLen(infohash) < 20 \/ BLen(peerid) > 20 THEN [panic |-> TRUE]
    ELSE [panic |-> FALSE,
          connection_id |-> connection_id,
          action |-> 1,
          transaction_id |-> 132,
          info_hash |-> BTake(infohash, 20),
          peer_id |-> BCat(peerid, Fill(0, 20 - BLen(peerid))),
          downloaded |-> I64(0),
          left |-> total_length,
          uploaded |-> I64(0),
          event |-> 1,
          ip |-> 0,
          key |-> 234,
          num_want |-> -1,
          port |-> 61389,
          extensions |-> 0]

\* impl ToBuffer for AnnounceMessage
AnnounceToBuffer(m) ==
    BCat(Bytes(I64ToBeBytes(m.connection_id) \o ToBeBytes(m.action)
               \o ToBeBytes(m.transaction_id)),
    BCat(m.info_hash,
    BCat(m.peer_id,
         Bytes(I64ToBeBytes(m.downloaded) \o I64ToBeBytes(m.left)
               \o I64ToBeBytes(m.uploaded) \o ToBeBytes(m.event) \o ToBeBytes(m.ip)
               \o ToBeBytes(m.key) \o ToBeBytes(m.num_want)
               \o U16ToBeBytes(m.port) \o U16ToBeBytes(m.extensions)))))

\* the loop of AnnounceMessageResponse::from_buffer from offset i on:
\* for i in (20..buf.len()-6).step_by(6), with its break
RECURSIVE ReadRecords(_, _, _)
ReadRecords(b, i, records) ==
    IF i >= BLen(b) - 6 THEN records
    ELSE LET ip == << BAt(b, i), BAt(b, i + 1), BAt(b, i + 2), BAt(b, i + 3) >>
             port == BAt(b, i + 4) * 256 + BAt(b, i + 5)
         IN IF ip = << 0, 0, 0, 0 >> /\ port = 0 THEN records
            ELSE ReadRecords(b, i + 6, Append(records, [ip |-> ip, port |-> port]))

\* impl FromBuffer for AnnounceMessageResponse: the slices buf[0..4] .. buf[16..20]
\* panic on a buffer of fewer than 20 bytes, ips[1..] on an empty ips
AnnounceResponseFromBuffer(b) ==
    IF BLen(b) < 20 \/ ReadRecords(b, 20, <<>>) = <<>> THEN [panic |-> TRUE]
    ELSE [panic |-> FALSE,
          action |-> I32FromBeBytes(b, 0),
          transaction_id |-> I32FromBeBytes(b, 4),
          interval |-> I32FromBeBytes(b, 8),
          leechers |-> I32FromBeBytes(b, 12),
          seeders |-> I32FromBeBytes(b, 16),
          peers |-> Tail(ReadRecords(b, 20, <<>>))]

\* i64::from_be_bytes on buf[i..i+8]
I64FromBeBytes(b, i) == << I32FromBeBytes(b, i), I32FromBeBytes(b, i + 4) >>

\* ConnectionMessage::create_basic_connection; the connection_id 4497486125440
\* is 0x41727101980 = 1047 * 2^32 + 655366528
CreateBasicConnection ==
    [connection_id |-> << 1047, 655366528 >>, action |-> 0, transaction_id |-> 123]

\* impl ToBuffer for ConnectionMessage
ConnectionToBuffer(m) ==
    Bytes(I64ToBeBytes(m.connection_id) \o ToBeBytes(m.action)
          \o ToBeBytes(m.transaction_id))

ConnectionFromBuffer_IdFirst(b) ==
    IF BLen(b) < 16 THEN [panic |-> TRUE]
    ELSE [panic |-> FALSE,
          action |-> I32FromBeBytes(b, 8),
          transaction_id |-> I32FromBeBytes(b, 12),
          connection_id |-> I64FromBeBytes(b, 0)]

\* impl FromBuffer for ConnectionMessage: the slices buf[..4], buf[4..8] and
\* buf[8..16] panic on a buffer of fewer than 16 bytes
ConnectionFromBuffer(b) ==
    IF BLen(b) < 16 THEN [panic |-> TRUE]
    ELSE [panic |-> FALSE,
          action |-> I32FromBeBytes(b, 0),
          transaction_id |-> I32FromBeBytes(b, 4),
          connection_id |-> I64FromBeBytes(b, 8)]

(***************************************************************************)
(* The codec functions called on their own.                                *)
(***************************************************************************)
MaxMessageLength == 6
MaxBufferLen == 10
MaxTypeByte == 11
MaxPayloadLen == 2
U8Max == 255

\* impl TryFrom<u8> for MessageType, with its result
U8ToMessageType(byte) ==
    IF TypeKnown(byte) THEN [ok |-> TRUE, message_type |-> TypeOfByte(byte)]
    ELSE [ok |-> FALSE, error |-> InvalidMessageType(byte)]

\* impl TryFrom<MessageType> for u8, with its result
MessageTypeToU8(t) ==
    IF TypeHasByte(t) THEN [ok |-> TRUE, byte |-> ByteOfType(t)]
    ELSE [ok |-> FALSE, error |-> InvalidMessageType(t)]

\* enum MessageType
AllMessageTypes == {"KeepAlive"} \cup {MessageTypes[i] : i \in 1..Len(MessageTypes)}

\* u32 arguments
U32Samples == {0, 1, 42, 1024, 16384, 2147483647}

\* messages built the way the type table prescribes: length 0 for KeepAlive,
\* 1 and no payload for the four flag messages, 1 + payload size for the rest
ValidMessages ==
    {Message(0, "KeepAlive", NoPayload)}
    \cup {Message(1, t, NoPayload) :
            t \in {"Choke", "Unchoke", "Interested", "NotInterested"}}
    \cup {Message(5, "Have", SomePayload(Bytes(ToBeBytes(i)))) : i \in U32Samples}
    \cup {Message(1 + n, "Bitfield", SomePayload(Fill(d, n))) :
            n \in 1..MaxPayloadLen, d \in DataBytes}
    \cup {[CreatePieceRequest(i, 1024, BlockSize) EXCEPT !.message_type = t] :
            i \in U32Samples, t \in {"Request", "Cancel"}}
    \cup {Message(9 + n, "Piece",
              SomePayload(BCat(Bytes(ToBeBytes(i) \o ToBeBytes(BlockSize)), Fill(d, n)))) :
            i \in U32Samples, n \in 0..MaxPayloadLen, d \in DataBytes}
    \cup {Message(3, "Port", SomePayload(Fill(d, 2))) : d \in DataBytes}

\* byte buffers handed to the decoder: a length prefix, a type byte and filler,
\* cut to every length
Buffers ==
    { BTake(BCat(Bytes(ToBeBytes(l) \o <<t>>), Fill(d, MaxBufferLen)), n) :
        l \in 0..MaxMessageLength, t \in 0..MaxTypeByte, d \in DataBytes,
        n \in 0..MaxBufferLen }

peerVars ==
    << driverVars, torrent, stream, peer_hs, unsolicited, pending, noise, rogue,
       served, tail >>

sessionVars == << peerVars, tracker, worker >>

\* Vec::<u8>::try_from(m), then Message::try_from on the bytes
EncodeDecode ==
    /\ call.op = "none"
    /\ \E m \in ValidMessages :
       \E encoded \in {ToBytes(m)} :
          call' = [op |-> "encode_decode", message |-> m, encoded |-> encoded,
                   decoded |-> IF encoded.ok THEN TryFromBytes(encoded.bytes)
                               ELSE encoded]
    /\ UNCHANGED sessionVars

\* Message::try_from(b), then Vec::<u8>::try_from on the message
DecodeEncode ==
    /\ call.op = "none"
    /\ \E b \in Buffers :
       \E decoded \in {TryFromBytes(b)} :
          call' = [op |-> "decode_encode", bytes |-> b, decoded |-> decoded,
                   encoded |-> IF decoded.ok THEN ToBytes(decoded) ELSE decoded]
    /\ UNCHANGED sessionVars

\* MessageType::try_from(byte), then u8::try_from on the type
ConvertByte ==
    /\ call.op = "none"
    /\ \E byte \in 0..U8Max :
       \E result \in {U8ToMessageType(byte)} :
          call' = [op |-> "u8_to_type", byte |-> byte, result |-> result,
                   back |-> IF result.ok THEN MessageTypeToU8(result.message_type)
                            ELSE result]
    /\ UNCHANGED sessionVars

\* u8::try_from(t), then MessageType::try_from on the byte
ConvertMessageType ==
    /\ call.op = "none"
    /\ \E t \in AllMessageTypes :
       \E result \in {MessageTypeToU8(t)} :
          call' = [op |-> "type_to_u8", message_type |-> t, result |-> result,
                   back |-> IF result.ok THEN U8ToMessageType(result.byte)
                            ELSE result]
    /\ UNCHANGED sessionVars

\* Message::create_piece_request, then Vec::<u8>::try_from on the message
CreateRequest ==
    /\ call.op = "none"
    /\ \E i \in U32Samples, o \in U32Samples, l \in U32Samples :
          call' = [op |-> "create_piece_request", piece_index |-> i, offset |-> o,
                   length |-> l, message |-> CreatePieceRequest(i, o, l),
                   encoded |-> ToBytes(CreatePieceRequest(i, o, l))]
    /\ UNCHANGED sessionVars

\* info_hash arguments: 19, 20 and 21 bytes
InfoHashSamples == {Fill(1, 19), Fill(1, 20), Fill(1, 21), Fill(171, 20)}

\* peer_id arguments, as the bytes of the String: "-MY0001-123456654321",
\* "-RT0001-123456012345", "-RT0001" and 21 letters
PeerIdSamples ==
    {Bytes(ClientPeerId), Bytes(RequestedPeerId), BTake(Bytes(RequestedPeerId), 7),
     Fill(65, 21)}

\* the 20 peer_id bytes of a handshake on the wire
WirePeerIds ==
    {Bytes(ClientPeerId), Fill(0, 20), Fill(127, 20), BCat(Fill(45, 16), Fill(128, 4)),
     BCat(Fill(45, 19), Fill(255, 1))}

\* handshakes on the wire, cut to 67, 68 and 69 bytes
HandshakeBuffers ==
    { BTake(BCat(Bytes(<<l>>),
            BCat(p,
            BCat(Fill(0, 8),
            BCat(ih, BCat(id, Fill(0, 1)))))), n) :
        l \in {0, 19}, p \in {Bytes(ProtocolString), Fill(0, 19)},
        ih \in {Fill(1, 20), Fill(171, 20)}, id \in WirePeerIds,
        n \in {HandshakeSize - 1, HandshakeSize, HandshakeSize + 1} }

\* Handshake::new(info_hash, peer_id), then to_buffer, then from_buffer
HandshakeCreate ==
    /\ call.op = "none"
    /\ \E info_hash \in InfoHashSamples, id \in PeerIdSamples :
       \E result \in {HandshakeNew(info_hash, id)} :
       \E buffer \in {IF result.ok THEN HandshakeToBuffer(result) ELSE <<>>} :
          call' = [op |-> "handshake_new", info_hash |-> info_hash, peer_id |-> id,
                   result |-> result, buffer |-> buffer,
                   decoded |-> IF result.ok THEN HandshakeFromBuffer(buffer)
                               ELSE result]
    /\ UNCHANGED sessionVars

\* Handshake::from_buffer(b), then to_buffer on the handshake
HandshakeParse ==
    /\ call.op = "none"
    /\ \E b \in HandshakeBuffers :
       \E result \in {HandshakeFromBuffer(b)} :
          call' = [op |-> "handshake_from_buffer", buffer |-> b, result |-> result,
                   encoded |-> IF result.ok THEN HandshakeToBuffer(result) ELSE <<>>]
    /\ UNCHANGED sessionVars

\* values of info.length and of info.files
LengthSamples == {None, Some(0), Some(7), Some(BlockSize)}
FilesSamples ==
    {None, Some(<<>>), Some(<< [length |-> 3] >>),
     Some(<< [length |-> 3], [length |-> BlockSize] >>)}

\* Torrent::get_total_length, which returns a u64 and has no error return
GetLength ==
    /\ call.op = "none"
    /\ \E length \in LengthSamples, files \in FilesSamples :
          call' = [op |-> "get_total_length", length |-> length, files |-> files,
                   result |-> [ok |-> TRUE,
                               value |-> GetTotalLength(
                                   [info |-> Info(BlockSize, <<>>, length, files),
                                    announce |-> None, announce_list |-> None])]]
    /\ UNCHANGED sessionVars

\* keys a metafile may carry that the structs do not declare
UnknownKeys == {"source", "publisher"}

\* Torrent::from_torrent_file on a metafile with the given unknown keys in info
\* and at the top level, then get_info_hash; plain is the same without those keys
HashMetafile ==
    /\ call.op = "none"
    /\ \E t \in Torrents, info_keys \in SUBSET UnknownKeys,
          top_keys \in SUBSET UnknownKeys :
       LET file(ik, tk) ==
               [info |-> [name |-> t.info.name, piece_length |-> t.info.piece_length,
                          pieces |-> t.info.pieces, length |-> t.info.length,
                          files |-> t.info.files, unknown |-> ik],
                announce |-> t.announce, announce_list |-> t.announce_list,
                unknown |-> tk]
       IN call' = [op |-> "get_info_hash", info_keys |-> info_keys,
                   top_keys |-> top_keys, piece_length |-> t.info.piece_length,
                   length |-> t.info.length,
                   result |-> GetInfoHash(FromTorrentFile(file(info_keys, top_keys))),
                   plain |-> GetInfoHash(FromTorrentFile(file({}, {})))]
    /\ UNCHANGED sessionVars

MaxGroups == 2

\* udp://a:80/announce and variants of it
Url(scheme, host, port, path) == scheme \o host \o << ":" >> \o port \o path

UrlSamples ==
    {Url(UdpScheme, << "a" >>, << "8", "0" >>, AnnouncePath),
     Url(UdpScheme, << "b" >>, << "6", "5", "5", "3", "5" >>, AnnouncePath),
     Url(UdpScheme, << "a" >>, << "0" >>, AnnouncePath),
     Url(UdpScheme, << "a" >>, << "6", "5", "5", "3", "6" >>, AnnouncePath),
     Url(HttpScheme, << "a" >>, << "8", "0" >>, AnnouncePath),
     Url(UdpScheme, <<>>, << "8", "0" >>, AnnouncePath),
     Url(UdpScheme, << "c" >>, << "8", "0" >>, AnnouncePath),
     Url(UdpScheme, << "x" >>, << "8", "0" >>, AnnouncePath)}

\* announce-list: up to MaxGroups groups, of one URL or of two
RECURSIVE GroupLists(_)
GroupLists(n) ==
    IF n = 0 THEN {<<>>}
    ELSE GroupLists(n - 1)
         \cup {Append(l, g) : l \in GroupLists(n - 1),
               g \in {<< u >> : u \in UrlSamples}
                     \cup {<< u, Url(UdpScheme, << "a" >>, << "1" >>, AnnouncePath) >> :
                             u \in UrlSamples}}

\* Torrent::get_trackers
FindTrackers ==
    /\ call.op = "none"
    /\ \E announce \in {None} \cup {Some(u) : u \in UrlSamples},
          announce_list \in {None} \cup {Some(l) : l \in GroupLists(MaxGroups)} :
          call' = [op |-> "get_trackers", announce |-> announce,
                   announce_list |-> announce_list,
                   result |-> GetTrackers([info |-> Info(BlockSize, <<>>, None, None),
                                           announce |-> announce,
                                           announce_list |-> announce_list])]
    /\ UNCHANGED sessionVars

\* i64 arguments
I64Samples == {I64(-1), I64(0), I64(1), I64(BlockSize), I64(2147483647), << 1047, -1 >>}

\* AnnounceMessage::new, then to_buffer
Announce ==
    /\ call.op = "none"
    /\ \E connection_id \in I64Samples, total_length \in I64Samples,
          infohash \in InfoHashSamples, peerid \in PeerIdSamples :
       \E message \in {AnnounceMessageNew(connection_id, infohash, peerid,
                                           total_length)} :
          call' = [op |-> "announce", connection_id |-> connection_id,
                   total_length |-> total_length, infohash |-> infohash,
                   peerid |-> peerid, message |-> message,
                   buffer |-> IF message.panic THEN <<>> ELSE AnnounceToBuffer(message)]
    /\ UNCHANGED sessionVars

MaxRecords == 3

\* the 6-byte records of an announce response: 0.0.0.0:0, 10.0.0.1:6881,
\* 10.0.0.2:51413 and 0.0.0.0:80
RecordSamples ==
    {<< 0, 0, 0, 0, 0, 0 >>, << 10, 0, 0, 1, 26, 225 >>, << 10, 0, 0, 2, 200, 213 >>,
     << 0, 0, 0, 0, 0, 80 >>}

\* the lists of at most n records
RECURSIVE RecordLists(_)
RecordLists(n) ==
    IF n = 0 THEN {<<>>}
    ELSE RecordLists(n - 1)
         \cup {Append(l, r) : l \in {x \in RecordLists(n - 1) : Len(x) = n - 1},
                              r \in RecordSamples}

\* the bytes of a list of records
RECURSIVE RecordBytes(_)
RecordBytes(records) ==
    IF records = <<>> THEN <<>>
    ELSE BCat(Bytes(Head(records)), RecordBytes(Tail(records)))

\* the 20 header bytes of an announce response: action 1, transaction_id 132,
\* interval 1800, leechers 3, seeders -1
ResponseHeader ==
    Bytes(ToBeBytes(1) \o ToBeBytes(132) \o ToBeBytes(1800) \o ToBeBytes(3)
          \o ToBeBytes(-1))

\* AnnounceMessageResponse::from_buffer on a response of 20 + 6*P bytes
ParseAnnounceResponse ==
    /\ call.op = "none"
    /\ \E records \in RecordLists(MaxRecords) :
          call' = [op |-> "announce_response", records |-> records,
                   result |-> AnnounceResponseFromBuffer(
                                  BCat(ResponseHeader, RecordBytes(records)))]
    /\ UNCHANGED sessionVars

MaxFiles == 3
MaxFileLength == 3
MaxPieceLength == 4

\* Files::create_files in multi file mode: one FileInfo per declared length;
\* data is what has been written to the file
CreateFiles(lengths) ==
    [k \in 1..Len(lengths) |->
        [length |-> lengths[k], current_length |-> 0, complete |-> FALSE, data |-> <<>>]]

\* the loop of Files::write_piece from the k-th file on.  A slice piece[j..end]
\* panics when j > end or end > piece.len(); File::write takes the whole slice
RECURSIVE WritePieceFrom(_, _, _, _, _)
WritePieceFrom(files, k, piece, j, piece_len) ==
    IF k > Len(files) THEN [panic |-> FALSE, files |-> files]
    ELSE IF files[k].complete THEN WritePieceFrom(files, k + 1, piece, j, piece_len)
    ELSE IF files[k].current_length + piece_len > files[k].length
         THEN LET end == files[k].length - files[k].current_length
              IN IF j > end \/ end > BLen(piece) THEN [panic |-> TRUE, files |-> files]
                 ELSE WritePieceFrom(
                          [files EXCEPT ![k] = [@ EXCEPT !.data = BCat(@, BSlice(piece, j, end)),
                                                         !.current_length = @ + end,
                                                         !.complete = TRUE]],
                          k + 1, piece, end, piece_len - end)
    ELSE IF j > BLen(piece) THEN [panic |-> TRUE, files |-> files]
    ELSE [panic |-> FALSE,
          files |-> [files EXCEPT ![k] = [@ EXCEPT !.data = BCat(@, BDrop(piece, j)),
                                                   !.current_length = @ + piece_len]]]

\* Files::write_piece
WritePiece(files, piece) == WritePieceFrom(files, 1, piece, 0, BLen(piece))

\* write_piece called with each piece in turn, as main's loop does
RECURSIVE WriteAll(_, _)
WriteAll(files, pieces) ==
    IF pieces = <<>> THEN [panic |-> FALSE, files |-> files]
    ELSE \* the files after the first piece, then the rest
         LET first == WritePiece(files, Head(pieces))
         IN IF first.panic THEN first ELSE WriteAll(first.files, Tail(pieces))

\* the lists of at most n file lengths
RECURSIVE FileLengths(_)
FileLengths(n) ==
    IF n = 0 THEN {<<>>}
    ELSE FileLengths(n - 1)
         \cup {Append(l, x) : l \in {y \in FileLengths(n - 1) : Len(y) = n - 1},
                              x \in 1..MaxFileLength}

\* the first `count` pieces of `size` bytes of a content whose i-th byte is i
PiecesOfContent(size, count) ==
    [p \in 1..count |-> Bytes([i \in 1..size |-> (p - 1) * size + i])]

\* Files::write_piece on new files, for pieces that fit the declared lengths
WritePieces ==
    /\ call.op = "none"
    /\ \E lengths \in FileLengths(MaxFiles) \ {<<>>}, size \in 1..MaxPieceLength :
       \E count \in 1..(SumLengths(CreateFiles(lengths)) \div size) :
       \E pieces \in {PiecesOfContent(size, count)} :
          call' = [op |-> "write_piece", lengths |-> lengths, pieces |-> pieces,
                   result |-> WriteAll(CreateFiles(lengths), pieces)]
    /\ UNCHANGED sessionVars

\* A u32 is the pair << hi, lo >> of its 16-bit halves and a u64 the four
\* 16-bit parts << p3, p2, p1, p0 >>, so that values of 2^31 and more exist.
\* the u32 of an integer below 2^31
U32Of(v) == << v \div (U16Max + 1), v % (U16Max + 1) >>

\* a + b on u32: the sum modulo 2^32, and whether it overflowed
U32Add(a, b) ==
    LET lo == a[2] + b[2]
        hi == a[1] + b[1] + lo \div (U16Max + 1)
    IN [overflow |-> hi > U16Max,
        value |-> << hi % (U16Max + 1), lo % (U16Max + 1) >>]

\* a - b on u32: the difference modulo 2^32, and whether it overflowed
U32Sub(a, b) ==
    LET lo == a[2] - b[2]
        hi == a[1] - b[1] - (IF lo < 0 THEN 1 ELSE 0)
    IN [overflow |-> hi < 0,
        value |-> << hi % (U16Max + 1), lo % (U16Max + 1) >>]

\* a >= b on u32
U32Geq(a, b) == a[1] > b[1] \/ (a[1] = b[1] /\ a[2] >= b[2])

\* `as u32` on a u64: the lower 32 bits
AsU32(v) == << v[3], v[4] >>

\* the arguments main hands to request_piece and the final-block test at the
\* head of its loop, *len + 16_384 >= total_len.  An overflowing + panics in a
\* build with overflow checks and wraps in one without
RequestPieceArgs(piece_length, total_length, l, overflow_checks) ==
    LET total_len == AsU32(total_length)
        sum == U32Add(l, U32Of(BlockSize))
    IN [piece_length |-> AsU32(piece_length),
        total_len |-> total_len,
        sum |-> sum.value,
        wrapped |-> sum.overflow,
        panic |-> sum.overflow /\ overflow_checks,
        final |-> U32Geq(sum.value, total_len)]

\* the match on the response in request_piece: a Piece adds the size of its
\* payload less 8 to *len and its bytes from the 9th on to buf
PieceArm(l, b, response, overflow_checks) ==
    IF response.message_type # "Piece" THEN [panic |-> FALSE, len |-> l, buf |-> b]
    ELSE IF ~response.payload.some THEN [panic |-> TRUE, len |-> l, buf |-> b]
    ELSE LET data == response.payload.bytes
             added == U32Add(l, U32Of(BLen(data)))
             less == U32Sub(added.value, U32Of(PieceHeader))
         IN IF (added.overflow \/ less.overflow) /\ overflow_checks
            THEN [panic |-> TRUE, len |-> l, buf |-> b]
            ELSE [panic |-> FALSE, len |-> less.value,
                  buf |-> BCat(b, BDrop(data, PieceHeader))]

\* u64 lengths of a torrent: 5, 65536, 2^32 - 1, 2^32 and 2^32 + 5
U64Samples ==
    {<< 0, 0, 0, 5 >>, << 0, 0, 1, 0 >>, << 0, 0, U16Max, U16Max >>,
     << 0, 1, 0, 0 >>, << 0, 1, 0, 5 >>}

\* values of the byte counter: 0, 16384, 32768 and 2^32 - 16384
LenSamples == {U32Of(0), U32Of(BlockSize), U32Of(2 * BlockSize), << U16Max, 49152 >>}

\* main calls request_piece: the `as u32` conversions and the first test
PassLengths ==
    /\ call.op = "none"
    /\ \E piece_length \in U64Samples, total_length \in U64Samples, l \in LenSamples,
          overflow_checks \in BOOLEAN :
          /\ U32Geq(AsU32(total_length), l)
          /\ call' = [op |-> "request_piece_args", piece_length |-> piece_length,
                      total_length |-> total_length, len |-> l,
                      result |-> RequestPieceArgs(piece_length, total_length, l,
                                                  overflow_checks)]
    /\ UNCHANGED sessionVars

\* the Piece messages a peer may answer with: a payload of n bytes
PieceResponses ==
    {TryFromBytes(ToBytes(Message(1 + n, "Piece", SomePayload(Fill(1, n)))).bytes) :
        n \in {3, PieceHeader, PieceHeader + 1, PieceHeader + BlockSize}}

\* request_piece has read a response
ReadBlock ==
    /\ call.op = "none"
    /\ \E l \in LenSamples, overflow_checks \in BOOLEAN,
          response \in PieceResponses \cup {Message(1, "Choke", NoPayload)} :
          call' = [op |-> "piece_arm", len |-> l, response |-> response,
                   result |-> PieceArm(l, <<>>, response, overflow_checks)]
    /\ UNCHANGED sessionVars

\* the call has returned; the next one can be made
CodecReturn ==
    /\ call.op # "none"
    /\ call' = [op |-> "none"]
    /\ UNCHANGED sessionVars

CodecInit == Init /\ torrent = CHOOSE t \in Torrents : TRUE

CodecNext ==
    \/ EncodeDecode
    \/ DecodeEncode
    \/ ConvertByte
    \/ ConvertMessageType
    \/ CreateRequest
    \/ HandshakeCreate
    \/ HandshakeParse
    \/ GetLength
    \/ HashMetafile
    \/ FindTrackers
    \/ Announce
    \/ ParseAnnounceResponse
    \/ WritePieces
    \/ PassLengths
    \/ ReadBlock
    \/ CodecReturn

CodecSpec == CodecInit /\ [][CodecNext]_vars

(***************************************************************************)
(* Peer::handshake against a peer that may reply with anything.            *)
(***************************************************************************)
\* what a peer may send in answer to the client's handshake: its handshake, one
\* for another torrent, one with another pstrlen, one with another protocol
\* string, and the first 67 bytes of its handshake
HandshakeReplies ==
    LET reply(l, p, ih) ==
            BCat(Bytes(<<l>>), BCat(p, BCat(Fill(0, 8), BCat(ih, RemotePeerId))))
        good == reply(19, Bytes(ProtocolString), GetInfoHash(torrent))
    IN {good,
        reply(19, Bytes(ProtocolString), Fill(1, 20)),
        reply(0, Bytes(ProtocolString), GetInfoHash(torrent)),
        reply(19, Fill(88, 19), GetInfoHash(torrent)),
        BTake(good, HandshakeSize - 1)}

\* the peer answers the client's handshake
PeerAnswer ==
    /\ pc = "handshake_read"
    /\ ~peer_hs
    /\ peer_hs' = TRUE
    /\ \E reply \in HandshakeReplies : stream' = BCat(stream, reply)
    /\ UNCHANGED << call, tracker, worker, torrent, unsolicited, pending, noise, rogue, served, tail >>
    /\ UNCHANGED driverVars

\* main up to the return of Peer::handshake
HandshakeNext ==
    \/ CreateConnection
    \/ HandshakeWrite
    \/ HandshakeRead
    \/ PeerAnswer
    \/ \E t \in UnsolicitedTypes : PeerSend(t)

HandshakeSpec == CodecInit /\ [][HandshakeNext]_vars

(***************************************************************************)
(* The tracker exchange: Tracker::find_peers over the connected UDP socket, *)
(* then main's choice of the first peer.  The tracker is the environment:   *)
(* it may send any datagram, or none.                                       *)
(***************************************************************************)
TrackerBufSize == 16384
MaxDatagrams == 2

\* "-MY0001-123456654321", the peer_id main announces
AnnouncePeerId ==
    << 45, 77, 89, 48, 48, 48, 49, 45, 49, 50, 51, 52, 53, 54, 54, 53, 52, 51, 50, 49 >>

\* what the tracker may send: connect responses (action 0, a transaction_id,
\* a connection_id), announce responses (action 1, a transaction_id, interval
\* 1800, leechers 3, seeders 1, then the records) and a datagram of two
\* bytes.  A transaction_id is the request's (123, 132) or another one.
TrackerDatagrams ==
    LET ConnectReply(transaction_id, connection_id) ==
            Bytes(ToBeBytes(0) \o ToBeBytes(transaction_id)
                  \o I64ToBeBytes(connection_id))
        AnnounceReply(transaction_id, records) ==
            BCat(Bytes(ToBeBytes(1) \o ToBeBytes(transaction_id) \o ToBeBytes(1800)
                       \o ToBeBytes(3) \o ToBeBytes(1)),
                 RecordBytes(records))
        p == << 10, 0, 0, 1, 26, 225 >>
        q == << 10, 0, 0, 2, 200, 213 >>
    IN {ConnectReply(t, c) : t \in {123, 7}, c \in {<< 0, 1 >>, << 1047, -1 >>}}
       \cup {AnnounceReply(t, r) : t \in {132, 7},
                                   r \in {<<>>, << p >>, << p, q >>, << p, q, p >>}}
       \cup {Bytes(<< 0, 1 >>)}

\* UdpSocket::recv into buf = vec![0; 16_384]: the datagram, cut to the size
\* of buf, over the zeros
Recv(datagram) ==
    BCat(BTake(datagram, TrackerBufSize),
         Fill(0, TrackerBufSize - Min(BLen(datagram), TrackerBufSize)))

exchangeFrame == << call, worker, peerVars >>

\* send_handshake, send_message: the connect request is sent
SendConnect ==
    /\ tracker.pc = "init"
    /\ tracker' = [tracker EXCEPT
                       !.pc = "connect_recv",
                       !.sent = Append(@, ConnectionToBuffer(CreateBasicConnection))]
    /\ UNCHANGED exchangeFrame

\* send_message: recv returns a datagram; send_handshake takes the
\* connection_id of ConnectionMessage::from_buffer
RecvConnect ==
    /\ tracker.pc = "connect_recv"
    /\ tracker.inbox # <<>>
    /\ \E buffer \in {Recv(Head(tracker.inbox))} :
       \E message \in {ConnectionFromBuffer(buffer)} :
          tracker' = [tracker EXCEPT
                         !.inbox = Tail(@),
                         !.responses = Append(@, buffer),
                         !.id = IF message.panic THEN @ ELSE Some(message.connection_id),
                         !.pc = IF message.panic THEN "panicked" ELSE "announce_send"]
    /\ UNCHANGED exchangeFrame

\* find_peers: AnnounceMessage::new, then send_message sends it
SendAnnounce ==
    /\ tracker.pc = "announce_send"
    /\ \E message \in {AnnounceMessageNew(tracker.id.value, GetInfoHash(torrent),
                                           Bytes(AnnouncePeerId),
                                           I64(GetTotalLength(torrent)))} :
          tracker' = [tracker EXCEPT
                         !.pc = IF message.panic THEN "panicked" ELSE "announce_recv",
                         !.sent = IF message.panic THEN @
                                  ELSE Append(@, AnnounceToBuffer(message))]
    /\ UNCHANGED exchangeFrame

\* send_message: recv returns a datagram; find_peers returns the addresses of
\* AnnounceMessageResponse::from_buffer
RecvAnnounce ==
    /\ tracker.pc = "announce_recv"
    /\ tracker.inbox # <<>>
    /\ \E buffer \in {Recv(Head(tracker.inbox))} :
       \E response \in {AnnounceResponseFromBuffer(buffer)} :
          tracker' = [tracker EXCEPT
                         !.inbox = Tail(@),
                         !.responses = Append(@, buffer),
                         !.peers = IF response.panic THEN @ ELSE response.peers,
                         !.pc = IF response.panic THEN "panicked" ELSE "found"]
    /\ UNCHANGED exchangeFrame

\* main: the address of the first peer, ips[0] and ports[0]
SelectPeer ==
    /\ tracker.pc = "found"
    /\ tracker' = [tracker EXCEPT
                       !.pc = IF tracker.peers = <<>> THEN "panicked" ELSE "selected"]
    /\ UNCHANGED exchangeFrame

\* the tracker sends a datagram to the client's socket
TrackerSend ==
    /\ tracker.datagrams < MaxDatagrams
    /\ tracker.pc \in {"connect_recv", "announce_recv"}
    /\ \E datagram \in TrackerDatagrams :
          tracker' = [tracker EXCEPT !.inbox = Append(@, datagram),
                                     !.datagrams = @ + 1]
    /\ UNCHANGED exchangeFrame

ClientStep == SendConnect \/ RecvConnect \/ SendAnnounce \/ RecvAnnounce \/ SelectPeer

TrackerNext ==
    \/ SendConnect
    \/ RecvConnect
    \/ SendAnnounce
    \/ RecvAnnounce
    \/ SelectPeer
    \/ TrackerSend

TrackerSpec == Init /\ [][TrackerNext]_vars

\* the runtime runs the client whenever it can take a step; nothing makes the
\* tracker send
TrackerFairSpec == TrackerSpec /\ WF_vars(ClientStep)

(***************************************************************************)
(* Peer::test: the task that serves DownloadPiece commands from a broadcast *)
(* channel, and its caller.  On the multi-thread runtime each task has a    *)
(* thread; on the current-thread runtime a task keeps the thread until it   *)
(* awaits something that is not ready.  The channel holds 16 messages, more *)
(* than the model sends.                                                    *)
(***************************************************************************)
MaxCommands == 2

workerFrame == << call, tracker, peerVars >>

\* the task may take a step
CanRun(task) == worker.runtime = "multi_thread" \/ worker.running = task

\* who holds the thread after the running task awaited something not ready
Yield(next) == IF worker.runtime = "current_thread" THEN next ELSE worker.running

\* Peer::test: broadcast::channel, resubscribe, spawn; the caller goes on
Test ==
    /\ worker.pc = "idle"
    /\ \E runtime \in {"current_thread", "multi_thread"} :
          worker' = [worker EXCEPT !.pc = "spawned", !.runtime = runtime]
    /\ UNCHANGED workerFrame

\* the caller sends a command on sx1: every live receiver gets it
CallerSend ==
    /\ worker.pc # "idle"
    /\ CanRun("caller")
    /\ worker.commands < MaxCommands
    /\ worker' = [worker EXCEPT
                      !.receiver = IF worker.pc \in {"exited", "panicked"} THEN @
                                   ELSE Append(@, "DownloadPiece"),
                      !.rx1 = Append(@, "DownloadPiece"),
                      !.commands = @ + 1]
    /\ UNCHANGED workerFrame

\* the caller takes a message from rx1
CallerRecv ==
    /\ CanRun("caller")
    /\ worker.rx1 # <<>>
    /\ worker' = [worker EXCEPT
                      !.rx1 = Tail(@),
                      !.got = IF Head(worker.rx1) = "DownloadedPiece" THEN @ + 1 ELSE @]
    /\ UNCHANGED workerFrame

\* the caller awaits something that is not ready, rx1.recv() on an empty
\* channel for one: the current-thread runtime polls the spawned task
CallerAwait ==
    /\ worker.runtime = "current_thread"
    /\ worker.running = "caller"
    /\ worker.pc \notin {"idle", "exited", "panicked"}
    /\ worker' = [worker EXCEPT !.running = "worker"]
    /\ UNCHANGED workerFrame

\* the task: Peer::create_connection(address).await, None => return
WorkerConnect ==
    /\ worker.pc = "spawned"
    /\ CanRun("worker")
    /\ \E connected \in BOOLEAN, next \in {"caller", "worker"} :
          worker' = [worker EXCEPT
                        !.pc = IF connected THEN "handshake" ELSE "exited",
                        !.running = IF connected THEN Yield(next) ELSE Yield("caller")]
    /\ UNCHANGED workerFrame

\* the task: peer.handshake and peer.keep_alive_until_unchoke, which unwrap
\* what they read
WorkerHandshake ==
    /\ worker.pc = "handshake"
    /\ CanRun("worker")
    /\ \E ok \in BOOLEAN, next \in {"caller", "worker"} :
          worker' = [worker EXCEPT
                        !.pc = IF ok THEN "loop" ELSE "panicked",
                        !.running = IF ok THEN Yield(next) ELSE Yield("caller")]
    /\ UNCHANGED workerFrame

\* the task: if receiver.is_empty() { continue }, with no await
WorkerPoll ==
    /\ worker.pc = "loop"
    /\ CanRun("worker")
    /\ worker' = IF worker.receiver = <<>> THEN [worker EXCEPT !.spun = TRUE]
                 ELSE [worker EXCEPT !.pc = "recv"]
    /\ UNCHANGED workerFrame

\* the task: receiver.recv().await on a channel that holds a message, and the
\* match on it
WorkerRecv ==
    /\ worker.pc = "recv"
    /\ CanRun("worker")
    /\ worker' = [worker EXCEPT
                      !.receiver = Tail(@),
                      !.pc = IF Head(worker.receiver) = "DownloadPiece"
                             THEN "request_piece" ELSE "loop"]
    /\ UNCHANGED workerFrame

\* the task: peer.request_piece(a, b, &mut c, d).await
WorkerRequestPiece ==
    /\ worker.pc = "request_piece"
    /\ CanRun("worker")
    /\ \E next \in {"caller", "worker"} :
          worker' = [worker EXCEPT !.pc = "send", !.running = Yield(next)]
    /\ UNCHANGED workerFrame

\* the task: sender.send(ControlMessage::DownloadedPiece(buf)); its own
\* receiver gets the message too
WorkerSend ==
    /\ worker.pc = "send"
    /\ CanRun("worker")
    /\ worker' = [worker EXCEPT
                      !.receiver = Append(@, "DownloadedPiece"),
                      !.rx1 = Append(@, "DownloadedPiece"),
                      !.answers = @ + 1,
                      !.pc = "loop"]
    /\ UNCHANGED workerFrame

WorkerStep ==
    \/ WorkerConnect
    \/ WorkerHandshake
    \/ WorkerPoll
    \/ WorkerRecv
    \/ WorkerRequestPiece
    \/ WorkerSend

WorkerNext ==
    \/ Test
    \/ CallerSend
    \/ CallerRecv
    \/ CallerAwait
    \/ WorkerConnect
    \/ WorkerHandshake
    \/ WorkerPoll
    \/ WorkerRecv
    \/ WorkerRequestPiece
    \/ WorkerSend

\* the runtime polls the task whenever it can run, the peer answers, and
\* the caller does not keep the thread for ever: it awaits the answers
WorkerSpec ==
    Init /\ [][WorkerNext]_vars /\ WF_vars(WorkerStep) /\ WF_vars(CallerAwait)

(***************************************************************************)
(* Properties.                                                             *)
(***************************************************************************)
\* the tracker's peer list, by index
Peers == 0..(MaxPeers - 1)

\* C1: write_piece is called with a buffer only if check_piece returned true for
\* exactly that buffer and that index.
C1_WrittenOnlyIfVerified ==
    \A k \in 1..Len(written) :
        /\ [piece |-> written[k].piece, index |-> written[k].index, ok |-> TRUE]
               \in checked
        /\ [piece |-> written[k].piece, index |-> written[k].index, ok |-> FALSE]
               \notin checked

\* a piece was written and a later piece failed its check and was not written
C1_Witness ==
    /\ Len(written) >= 1
    /\ \E c \in checked : ~c.ok /\ c.index = Len(written)

\* C2: the k-th call of write_piece carries the piece with index k-1.
C2_WrittenInAscendingOrder ==
    \A k \in 1..Len(written) : written[k].index = k - 1

\* two pieces were written
C2_Witness == Len(written) >= 2 /\ written[2].index = 1

\* C3: after a failed check_piece the driver goes on to the next peer of the
\* tracker's list; it gives up only when every peer has been tried.
C3_RotatesPeersOnMismatch ==
    (pc \in Terminal /\ \E c \in checked : ~c.ok) => tried = Peers

\* C4: the driver reports success (and returns normally) only if all
\* N = len(pieces)/20 pieces were verified and written.
C4_SuccessOnlyIfComplete ==
    pc = "done" => Len(written) = NumPieces

\* C5: against a peer that only answers Requests, each with the Piece asked for,
\* and for a piece_length that is a multiple of 16384, request_piece returns
\* piece_length bytes for every piece but the last and
\* total_length - piece_length*(N-1) bytes for the last.
C5_PieceAssemblySize ==
    (/\ pc = "check" /\ ~noise /\ ~rogue
     /\ torrent.info.piece_length % BlockSize = 0
     /\ \A k \in 1..Len(response_log) :
            /\ response_log[k].message_type = "Piece"
            /\ response_log[k].index = request_log[k].index
            /\ response_log[k].offset = request_log[k].offset)
        => BLen(buf) = BLen(TruePiece(torrent.info.piece_length, GetTotalLength(torrent), index))

\* C6: every Request written has an offset that is a multiple of 16384, a length
\* of at most 16384 and offset + length <= piece_length, for every piece_length.
C6_RequestWithinPiece ==
    \A k \in 1..Len(request_log) :
        /\ request_log[k].offset % BlockSize = 0
        /\ request_log[k].length <= BlockSize
        /\ request_log[k].offset + request_log[k].length <= torrent.info.piece_length

\* C7: Have, Bitfield and KeepAlive messages that arrive while request_piece
\* awaits a Piece change nothing: the bytes request_piece returns are the block
\* bytes the peer sent for the piece, none skipped.
C7_NoiseIsSkipped ==
    (pc = "check" /\ ~rogue) => buf = served

\* C8: in every state choking is true iff no Choke/Unchoke was decoded yet or the
\* last one decoded is Choke.
C8_ChokingTracksPeer ==
    choking = (lastCU # "Unchoke")

\* C9: whenever a Request is written, the last Choke/Unchoke decoded on the
\* session is an Unchoke.
C9_NoRequestWhileChoked ==
    \A k \in 1..Len(request_log) : request_log[k].lastCU = "Unchoke"

\* C10: when Peer::handshake returns Ok, choking is false iff the bytes after the
\* peer's 68-byte handshake in that read hold an Unchoke message.
C10_TailUnchokeSeen ==
    [][(pc = "handshake_read" /\ pc' = "unchoke_wait")
          => (choking' = FALSE <=> \E k \in 1..Len(tail) : tail[k] = "Unchoke")]_vars

\* the wire bytes of Interested
InterestedBytes == Bytes(<< 0, 0, 0, 1, 2 >>)

\* C11: once the peer has sent a well-formed 68-byte handshake and Peer::handshake
\* has read it, handshake has returned Ok and peer_id is the peer_id of the reply,
\* also when nothing follows the handshake in the read.
C11_HandshakeOkOnWellFormedReply ==
    (peer_hs /\ pc # "handshake_read") => peer_id = RemotePeerId

\* C12: when the session waits for the Unchoke after the handshake, the client
\* has written an Interested message (00 00 00 01 02).
C12_InterestedOnEnteringChoked ==
    pc = "unchoke_wait" => \E k \in 1..Len(sent) : sent[k] = InterestedBytes

\* C13: at any time at most one Request has been written for which request_piece
\* has not read the Piece that answers it.
C13_OneRequestOutstanding ==
    Len(request_log)
      - Cardinality({k \in 1..Len(response_log) : response_log[k].message_type = "Piece"})
      <= 1

\* C14: every Piece whose block bytes request_piece appended carries the index
\* and the offset of the Request it was read for.
C14_PieceMatchesRequest ==
    \A k \in 1..Len(response_log) :
        response_log[k].message_type = "Piece"
            => /\ response_log[k].index = request_log[k].index
               /\ response_log[k].offset = request_log[k].offset

\* C15: for every valid message m, encoding m and decoding the bytes succeeds and
\* gives back m: same length, type and payload.
C15_EncodeDecodeRoundTrip ==
    call.op = "encode_decode"
        => /\ call.encoded.ok
           /\ call.decoded.ok
           /\ call.decoded = call.message

\* C16: for every buffer the decoder accepts that is one message and nothing
\* more, encoding the decoded message succeeds and gives back the buffer.
C16_DecodeEncodeRoundTrip ==
    (/\ call.op = "decode_encode"
     /\ call.decoded.ok
     /\ BLen(call.bytes) = 4 + call.decoded.message_length)
        => /\ call.encoded.ok
           /\ call.encoded.bytes = call.bytes

\* C17: the decoder fails whenever the buffer has fewer than 4 bytes or the
\* length prefix L has 4 + L > buffer length.
C17_DecoderRejectsTruncation ==
    (/\ call.op = "decode_encode"
     /\ \/ BLen(call.bytes) < 4
        \/ 4 + FromBeBytes(call.bytes, 0) > BLen(call.bytes))
        => ~call.decoded.ok

\* C18: a buffer of at least the 4 prefix bytes decodes to KeepAlive iff its
\* length prefix is 0; in particular 00 00 00 00 decodes to KeepAlive.
C18_KeepAliveIffZeroLength ==
    (call.op = "decode_encode" /\ BLen(call.bytes) >= 4)
        => ((call.decoded.ok /\ call.decoded.message_type = "KeepAlive")
               <=> FromBeBytes(call.bytes, 0) = 0)

\* C19: u8 -> MessageType succeeds exactly on 0..9 and follows the id table,
\* MessageType -> u8 succeeds on exactly the ten typed messages (not KeepAlive)
\* and follows the same table, each conversion undoes the other, and a message
\* buffer with any other type byte is rejected with the invalid-type error, which
\* is none of the two truncation errors.
C19_TypeByteConversions ==
    LET ids == [Choke |-> 0, Unchoke |-> 1, Interested |-> 2, NotInterested |-> 3,
                Have |-> 4, Bitfield |-> 5, Request |-> 6, Piece |-> 7,
                Cancel |-> 8, Port |-> 9]
    IN /\ call.op = "u8_to_type"
            => /\ call.result.ok <=> call.byte \in 0..9
               /\ call.result.ok
                    => /\ call.result.message_type \in DOMAIN ids
                       /\ ids[call.result.message_type] = call.byte
                       /\ call.back = [ok |-> TRUE, byte |-> call.byte]
       /\ call.op = "type_to_u8"
            => /\ call.result.ok <=> call.message_type # "KeepAlive"
               /\ call.result.ok
                    => /\ call.result.byte = ids[call.message_type]
                       /\ call.back = [ok |-> TRUE, message_type |-> call.message_type]
       /\ (/\ call.op = "decode_encode"
           /\ BLen(call.bytes) >= 5
           /\ FromBeBytes(call.bytes, 0) # 0
           /\ BAt(call.bytes, 4) \notin 0..9)
            => /\ ~call.decoded.ok
               /\ call.decoded.error = << "Invalid Message Type", BAt(call.bytes, 4) >>
               /\ call.decoded.error[1]
                    \notin { BufferNotLongEnough(0)[1], InvalidMessageLength(0, 0)[1] }

\* byte 9 converted to Port and back
C19_Witness ==
    /\ call.op = "u8_to_type"
    /\ call.byte = 9
    /\ call.result = [ok |-> TRUE, message_type |-> "Port"]
    /\ call.back = [ok |-> TRUE, byte |-> 9]

\* C20: create_piece_request gives a Request of message_length 13 whose 12-byte
\* payload is index, offset, length in big-endian, and whose serialization is
\* 00 00 00 0D 06 followed by the payload.
C20_CreatePieceRequestLayout ==
    call.op = "create_piece_request"
        => /\ call.message.message_length = 13
           /\ call.message.message_type = "Request"
           /\ call.message.payload.some
           /\ BLen(call.message.payload.bytes) = 12
           /\ \A j \in 0..11 : BAt(call.message.payload.bytes, j) \in 0..255
           /\ FromBeBytes(call.message.payload.bytes, 0) = call.piece_index
           /\ FromBeBytes(call.message.payload.bytes, 4) = call.offset
           /\ FromBeBytes(call.message.payload.bytes, 8) = call.length
           /\ call.encoded.ok
           /\ call.encoded.bytes
                = BCat(Bytes(<< 0, 0, 0, 13, 6 >>), call.message.payload.bytes)

\* the request for piece 42, offset 1024, length 16384 and its 17 bytes
C20_Witness ==
    /\ call.op = "create_piece_request"
    /\ call.piece_index = 42 /\ call.offset = 1024 /\ call.length = 16384
    /\ call.encoded.bytes
         = Bytes(<< 0, 0, 0, 13, 6, 0, 0, 0, 42, 0, 0, 4, 0, 0, 0, 64, 0 >>)

\* C21: the buffer of a handshake built by Handshake::new is 68 bytes: 19, the
\* protocol string, eight zero bytes, the handshake's info_hash, its peer_id
C21_HandshakeBufferLayout ==
    (call.op = "handshake_new" /\ call.result.ok) =>
        /\ BLen(call.buffer) = 68
        /\ BAt(call.buffer, 0) = 19
        /\ BSlice(call.buffer, 1, 20) = Bytes(ProtocolString)
        /\ BSlice(call.buffer, 20, 28) = Fill(0, 8)
        /\ BSlice(call.buffer, 28, 48) = call.result.info_hash
        /\ BSlice(call.buffer, 48, 68) = call.result.peer_id

C21_Witness ==
    /\ call.op = "handshake_new"
    /\ call.result.ok
    /\ call.info_hash = Fill(171, 20)
    /\ BSlice(call.buffer, 28, 48) = Fill(171, 20)

\* C22: Handshake::new fails exactly when info_hash or peer_id is not 20 bytes,
\* and the handshake it returns carries the caller's info_hash and peer_id,
\* pstrlen 19 and the protocol string
C22_HandshakeCarriesCallerIds ==
    call.op = "handshake_new" =>
        /\ call.result.ok <=> (BLen(call.info_hash) = 20 /\ BLen(call.peer_id) = 20)
        /\ call.result.ok =>
              /\ call.result.info_hash = call.info_hash
              /\ call.result.peer_id = call.peer_id
              /\ call.result.p_str_len = 19
              /\ call.result.p_str = Bytes(ProtocolString)

\* a 68-byte handshake with pstrlen 19, the protocol string and zero reserved bytes
WellFormedHandshake(b) ==
    /\ BLen(b) = 68
    /\ BAt(b, 0) = 19
    /\ BSlice(b, 1, 20) = Bytes(ProtocolString)
    /\ BSlice(b, 20, 28) = Fill(0, 8)

\* C24: to_buffer(from_buffer(b)) = b for every well-formed 68-byte handshake b,
\* whatever its info_hash and peer_id bytes, and from_buffer(to_buffer(h)) has
\* the info_hash and peer_id of every h built by Handshake::new
C24_HandshakeRoundTrip ==
    /\ (call.op = "handshake_from_buffer" /\ WellFormedHandshake(call.buffer)) =>
          (call.result.ok /\ call.encoded = call.buffer)
    /\ (call.op = "handshake_new" /\ call.result.ok) =>
          /\ call.decoded.ok
          /\ call.decoded.info_hash = call.result.info_hash
          /\ call.decoded.peer_id = call.result.peer_id

\* the bytes the read of Peer::handshake finds start with a handshake for this
\* torrent: at least 68 bytes, pstrlen 19, the protocol string, the info_hash
ReplyAccepted(s) ==
    /\ BLen(s) >= 68
    /\ BAt(s, 0) = 19
    /\ BSlice(s, 1, 20) = Bytes(ProtocolString)
    /\ BSlice(s, 28, 48) = GetInfoHash(torrent)

\* C23: Peer::handshake goes on to the unchoke wait only when the reply it read
\* is at least 68 bytes, starts with 19 and the protocol string, and carries the
\* torrent's info_hash; any other reply is rejected
C23_BadReplyRejected ==
    [][(pc = "handshake_read" /\ pc' = "unchoke_wait") => ReplyAccepted(stream)]_vars

\* C25: get_total_length returns info.length when it is present, also when files
\* is present too; otherwise the sum of the lengths of info.files; and it fails
\* when neither is present
C25_TotalLengthOrError ==
    call.op = "get_total_length" =>
        IF call.length.some
        THEN call.result.ok /\ call.result.value = call.length.value
        ELSE IF call.files.some
        THEN /\ call.result.ok
             /\ call.result.value = SumLengths(call.files.value)
        ELSE ~call.result.ok

C27_InfoHashOfReceivedInfo ==
    call.op = "get_info_hash" =>
        /\ call.info_keys # {} => call.result # call.plain
        /\ call.info_keys = {} => call.result = call.plain

\* the URLs get_trackers scans, in order: announce, then the first entry of
\* each announce-list group
RECURSIVE FirstEntries(_)
FirstEntries(groups) ==
    IF groups = <<>> THEN <<>> ELSE << Head(groups)[1] >> \o FirstEntries(Tail(groups))

ScannedUrls(announce, announce_list) ==
    (IF announce.some THEN << announce.value >> ELSE <<>>)
        \o (IF announce_list.some THEN FirstEntries(announce_list.value) ELSE <<>>)

\* the endpoints of the URLs that are udp://HOST:PORT/announce with a non-empty
\* host and a port in 1..=65535, in order: one per IPv4 address of the host
RECURSIVE EndpointsOf(_)
EndpointsOf(urls) ==
    IF urls = <<>> THEN <<>>
    ELSE LET c == Captures(Head(urls))
             port == IF c.some THEN DecimalValue(c.port) ELSE 0
             ips == IF c.some THEN LookupHost(c.hostname).ips ELSE <<>>
             v4 == SelectSeq(ips, LAMBDA i : i.v4)
         IN (IF port \in 1..65535
             THEN [k \in 1..Len(v4) |-> [ip |-> v4[k].addr, port |-> port]]
             ELSE <<>>) \o EndpointsOf(Tail(urls))

\* C28: get_trackers returns the endpoints of exactly the URLs of the form
\* udp://HOST:PORT/announce with a port in 1..=65535, announce first and then
\* the first entry of each announce-list group; any other URL, port 0 and
\* ports above 65535 included, is skipped and does not make the call fail
C28_TrackersFromUdpUrls ==
    call.op = "get_trackers" =>
        /\ ~call.result.panic
        /\ call.result.addresses
             = EndpointsOf(ScannedUrls(call.announce, call.announce_list))

\* C29: the buffer of an AnnounceMessage is 98 bytes: connection_id (8), action
\* 1 (4), transaction_id (4), info_hash (20), peer_id (20), downloaded (8),
\* left (8), uploaded (8), event (4), ip (4), key (4), num_want (4), port (2),
\* extensions (2), in this order and big-endian
C29_AnnounceBufferLayout ==
    (call.op = "announce" /\ ~call.message.panic) =>
        /\ BLen(call.buffer) = 98
        /\ BSlice(call.buffer, 0, 8) = Bytes(I64ToBeBytes(call.connection_id))
        /\ BSlice(call.buffer, 8, 12) = Bytes(<< 0, 0, 0, 1 >>)
        /\ BSlice(call.buffer, 12, 16) = Bytes(ToBeBytes(call.message.transaction_id))
        /\ BSlice(call.buffer, 16, 36) = call.message.info_hash
        /\ BSlice(call.buffer, 36, 56) = call.message.peer_id
        /\ BSlice(call.buffer, 56, 64) = Bytes(I64ToBeBytes(call.message.downloaded))
        /\ BSlice(call.buffer, 64, 72) = Bytes(I64ToBeBytes(call.total_length))
        /\ BSlice(call.buffer, 72, 80) = Bytes(I64ToBeBytes(call.message.uploaded))
        /\ BSlice(call.buffer, 80, 84) = Bytes(ToBeBytes(call.message.event))
        /\ BSlice(call.buffer, 84, 88) = Bytes(ToBeBytes(call.message.ip))
        /\ BSlice(call.buffer, 88, 92) = Bytes(ToBeBytes(call.message.key))
        /\ BSlice(call.buffer, 92, 96) = Bytes(ToBeBytes(call.message.num_want))
        /\ BSlice(call.buffer, 96, 98) = Bytes(U16ToBeBytes(call.message.port))
        /\ BDrop(call.buffer, 98) = Bytes(U16ToBeBytes(call.message.extensions))

\* the records before the first 0.0.0.0:0
RECURSIVE BeforeTerminator(_)
BeforeTerminator(records) ==
    IF records = <<>> \/ Head(records) = << 0, 0, 0, 0, 0, 0 >> THEN <<>>
    ELSE << Head(records) >> \o BeforeTerminator(Tail(records))

\* C30: from_buffer on a response of 20 + 6*P bytes reads the five header
\* fields big-endian and returns the records before the first 0.0.0.0:0 (all P
\* when there is none) without the first of them, in order
C30_ResponseRecords ==
    call.op = "announce_response" =>
        LET expected == Tail(BeforeTerminator(call.records))
        IN /\ ~call.result.panic
           /\ call.result.action = 1
           /\ call.result.transaction_id = 132
           /\ call.result.interval = 1800
           /\ call.result.leechers = 3
           /\ call.result.seeders = -1
           /\ call.result.peers
                = [k \in 1..Len(expected) |->
                     [ip |-> SubSeq(expected[k], 1, 4),
                      port |-> expected[k][5] * 256 + expected[k][6]]]

\* C31: a tracker response whose transaction_id is not the one of the pending
\* request is never accepted: send_handshake takes no connection_id from it
\* and find_peers returns no peers from it.
C31_MismatchedResponseDropped ==
    /\ tracker.id # None =>
           I32FromBeBytes(tracker.responses[1], 4) = CreateBasicConnection.transaction_id
    /\ (tracker.pc \in {"found", "selected"} /\ tracker.peers # <<>>) =>
           I32FromBeBytes(tracker.responses[2], 4) = 132

\* C32: the first datagram find_peers sends is the 16-byte connect request,
\* the protocol magic 0x41727101980 and action 0 in front; the announce is
\* sent only after a connect response was received, and its first eight
\* bytes are bytes 8..16 of that response.
C32_ConnectThenAnnounce ==
    /\ tracker.pc = "init" => tracker.sent = <<>>
    /\ Len(tracker.sent) <= 2
    /\ Len(tracker.sent) >= 1 =>
           /\ BLen(tracker.sent[1]) = 16
           /\ BSlice(tracker.sent[1], 0, 8) = Bytes(<< 0, 0, 4, 23, 39, 16, 25, 128 >>)
           /\ BSlice(tracker.sent[1], 8, 12) = Fill(0, 4)
    /\ Len(tracker.sent) >= 2 =>
           /\ Len(tracker.responses) >= 1
           /\ BLen(tracker.sent[2]) = 100
           /\ BSlice(tracker.sent[2], 0, 8) = BSlice(tracker.responses[1], 8, 16)
           /\ BSlice(tracker.sent[2], 8, 12) = Bytes(<< 0, 0, 0, 1 >>)

C32_Witness ==
    /\ Len(tracker.sent) = 2
    /\ tracker.id = Some(<< 1047, -1 >>)
    /\ BSlice(tracker.sent[2], 0, 8) = Bytes(<< 0, 0, 4, 23, 255, 255, 255, 255 >>)

\* C33: a tracker exchange always comes to an end, with the peers or with a
\* failure, also when the tracker never answers.
C33_ExchangeTerminates == <>(tracker.pc \in {"found", "selected", "panicked"})

\* C38: when the announce response holds at most the one record that is
\* discarded, the parser and the driver's choice of the first peer make no
\* out-of-range access: the exchange ends without a panic.
C38_NoPeerIsAFailure ==
    (Len(tracker.responses) = 2
     /\ Len(ReadRecords(tracker.responses[2], 20, <<>>)) <= 1)
        => tracker.pc # "panicked"

\* the buffers of a list, one after the other
RECURSIVE Concat(_)
Concat(buffers) ==
    IF buffers = <<>> THEN <<>> ELSE BCat(Head(buffers), Concat(Tail(buffers)))

\* C34: after write_piece calls whose bytes fit the declared lengths, the
\* bytes written to the files, file after file, are the pieces one after the
\* other, and no file holds more bytes than its declared length.
C34_PiecesLandInFileOrder ==
    call.op = "write_piece" =>
        /\ ~call.result.panic
        /\ Concat([k \in 1..Len(call.lengths) |-> call.result.files[k].data])
               = Concat(call.pieces)
        /\ \A k \in 1..Len(call.lengths) :
               BLen(call.result.files[k].data) <= call.lengths[k]

\* C35: a codec error met during the peer session does not abort the process:
\* main panics only where it unwraps the result of the shutdown.
C35_CodecErrorIsAValue == [][pc' = "panicked" => pc = "disconnect"]_vars

\* C36: when the handshake read has left choking = false, the wait for the
\* Unchoke does not block: the driver can go on to the first request_piece
\* without another message of the peer.
C36_UnchokedDoesNotWait ==
    (pc = "unchoke_wait" /\ choking = FALSE /\ stream = <<>>)
        => ENABLED (KeepAliveUntilUnchoke \/ NextPiece)

\* C37: a response read by request_piece increases the byte counter by
\* exactly the number of bytes it appends to the piece buffer; the counter
\* never decreases.
C37_CounterIsBytesAppended ==
    (call.op = "piece_arm" /\ ~call.result.panic) =>
        /\ ~U32Add(call.len, U32Of(BLen(call.result.buf))).overflow
        /\ call.result.len = U32Add(call.len, U32Of(BLen(call.result.buf))).value
        /\ U32Geq(call.result.len, call.len)

\* C39: the total length request_piece works with is get_total_length(), for
\* totals of 2^32 and more too, and *len + 16_384 does not wrap.
C39_LengthsPassWithoutLoss ==
    call.op = "request_piece_args" =>
        /\ << 0, 0 >> \o call.result.total_len = call.total_length
        /\ ~call.result.wrapped
        /\ ~call.result.panic

\* C40: the task answers every DownloadPiece it serves with one
\* DownloadedPiece and takes no answer of its own for a command; on the
\* current-thread runtime its loop gives the thread back while no command is
\* pending, so that the caller can run.
C40_WorkerServesAndYields ==
    /\ [](worker.answers <= worker.commands)
    /\ \A k \in 1..MaxCommands :
           (worker.commands >= k /\ worker.pc \notin {"exited", "panicked"})
               ~> (worker.answers >= k \/ worker.pc \in {"exited", "panicked"})
    /\ (worker.runtime = "current_thread" /\ worker.pc = "loop"
        /\ worker.receiver = <<>> /\ worker.running = "worker")
           ~> (worker.running = "caller")

=========================================================================
